---- MODULE Spec2Model ----
(***************************************************************************)
(* drizzle-crud: the per-entity operation pipeline (create, findOne, list, *)
(* update, deleteOne, restore, permanentDelete and the bulk variants), the *)
(* scope and soft-delete predicate composers, the filter compiler and the  *)
(* pagination arithmetic, over a table of rows held by a database handle.  *)
(*                                                                         *)
(* A row is [id, tenantId, val, deletedAt].  Text values are sequences of  *)
(* characters so that LIKE '%s%' is computed, not assumed.                 *)
(***************************************************************************)
EXTENDS Integers, Sequences, FiniteSets, TLC

-----------------------------------------------------------------------------
(* Bounds of the model *)

MaxId == 2
MaxClock == 2
DefaultPageSize == 2
MaxPageSize == 3

-----------------------------------------------------------------------------
(* Values *)

Undefined == -1000
Null == -1
FixedDeletedValue == 0

Handles == {"default", "override"}
Tenants == {"A", "B"}
Vals == {<<"a">>, <<"b", "a">>}
Absent == <<"?">>

NoRows == [i \in {} |-> 0]

Min(a, b) == IF a < b THEN a ELSE b
Max(a, b) == IF a > b THEN a ELSE b

RECURSIVE SortedIds(_)
SortedIds(S) ==
  IF S = {} THEN <<>>
  ELSE LET m == CHOOSE x \in S : \A y \in S : x <= y
       IN <<m>> \o SortedIds(S \ {m})

Reverse(s) == [i \in 1..Len(s) |-> s[Len(s) + 1 - i]]

RowOf(table, id) ==
  [id |-> id, tenantId |-> table[id].tenantId, val |-> table[id].val,
   deletedAt |-> table[id].deletedAt]

-----------------------------------------------------------------------------
(* State *)

VARIABLES tables, seq, clock, cfg, call, res, before

vars == <<tables, seq, clock, cfg, call, res, before>>

-----------------------------------------------------------------------------
(* Predicates (drizzle SQL conditions) and their evaluation by the store *)

Eq(col, v) == [op |-> "eq", col |-> col, val |-> v]
IsNull(col) == [op |-> "isNull", col |-> col, val |-> Null]
InArray(col, S) == [op |-> "inArray", col |-> col, val |-> S]
Like(col, pat) == [op |-> "like", col |-> col, val |-> pat]
Or(args) == [op |-> "or", col |-> "", val |-> args]
And(args) == [op |-> "and", col |-> "", val |-> args]

\* s LIKE p, % matching any run of characters
RECURSIVE LikeMatch(_, _)
LikeMatch(s, p) ==
  IF p = <<>> THEN s = <<>>
  ELSE IF Head(p) = "%"
       THEN \E k \in 0..Len(s) : LikeMatch(SubSeq(s, k + 1, Len(s)), Tail(p))
       ELSE s # <<>> /\ Head(s) = Head(p) /\ LikeMatch(Tail(s), Tail(p))

LowerChar(ch) ==
  CASE ch = "A" -> "a" [] ch = "B" -> "b" [] ch = "H" -> "h" [] OTHER -> ch

Lower(s) == [i \in 1..Len(s) |-> LowerChar(s[i])]

\* The value a column holds for an operand that is undefined
Sentinel(col) ==
  CASE col = "val" -> Absent [] col = "tenantId" -> "?" [] OTHER -> Undefined

\* The columns of the table
Columns == {"id", "tenantId", "val", "deletedAt"}

\* The predicate carries an undefined operand as its bound parameter
Unbound(c) ==
  IF c.op \in {"and", "or", "isNull"} \/ c.col \notin Columns THEN FALSE
  ELSE IF c.op \in {"inArray", "notInArray"} THEN Sentinel(c.col) \in c.val
  ELSE c.val = Sentinel(c.col)

\* Evaluation of a predicate on a row by the database of dialect cfg.dialect:
\* a comparison with NULL holds of no row; LIKE ignores ASCII case in SQLite
\* and not in PostgreSQL; ILIKE is PostgreSQL's
RECURSIVE Holds(_, _)
Holds(c, row) ==
  IF Unbound(c) THEN FALSE
  ELSE
  CASE c.op = "eq" ->
         IF c.col = "deletedAt" /\ (c.val = Null \/ row.deletedAt = Null)
         THEN FALSE
         ELSE row[c.col] = c.val
    [] c.op = "isNull" -> c.col = "deletedAt" /\ row.deletedAt = Null
    [] c.op = "inArray" -> row[c.col] \in c.val
    [] c.op = "like" ->
         IF cfg.dialect = "sqlite"
         THEN LikeMatch(Lower(row[c.col]), Lower(c.val))
         ELSE LikeMatch(row[c.col], c.val)
    [] c.op = "ilike" -> LikeMatch(Lower(row[c.col]), Lower(c.val))
    [] c.op = "ne" -> row[c.col] # c.val
    [] c.op = "gt" -> row[c.col] > c.val
    [] c.op = "gte" -> row[c.col] >= c.val
    [] c.op = "lt" -> row[c.col] < c.val
    [] c.op = "lte" -> row[c.col] <= c.val
    [] c.op = "notInArray" -> row[c.col] \notin c.val
    [] c.op = "and" -> \A i \in 1..Len(c.val) : Holds(c.val[i], row)
    [] c.op = "or" -> \E i \in 1..Len(c.val) : Holds(c.val[i], row)
    [] OTHER -> FALSE

RECURSIVE HasILike(_)
HasILike(c) ==
  IF c.op \in {"and", "or"}
  THEN \E i \in 1..Len(c.val) : HasILike(c.val[i])
  ELSE c.op = "ilike"

RECURSIVE HasUnbound(_)
HasUnbound(c) ==
  IF c.op \in {"and", "or"}
  THEN \E i \in 1..Len(c.val) : HasUnbound(c.val[i])
  ELSE Unbound(c)

\* The predicate compares table[key] for a key that is no column: the
\* comparison is rendered without its left operand
RECURSIVE HasNoColumn(_)
HasNoColumn(c) ==
  IF c.op \in {"and", "or"}
  THEN \E i \in 1..Len(c.val) : HasNoColumn(c.val[i])
  ELSE c.col \notin Columns

\* SQLite has no ILIKE, and no database a comparison without its left
\* operand: the statement is a syntax error
StoreRejects(conditions) ==
  \/ cfg.dialect = "sqlite"
       /\ \E i \in 1..Len(conditions) : HasILike(conditions[i])
  \/ \E i \in 1..Len(conditions) : HasNoColumn(conditions[i])

\* What the driver does with an undefined parameter: binds NULL, or throws
BindOutcomes(conditions) ==
  IF \E i \in 1..Len(conditions) : HasUnbound(conditions[i])
  THEN {"null", "throw"}
  ELSE {"null"}

Matches(conditions, row) ==
  \A i \in 1..Len(conditions) : Holds(conditions[i], row)

\* SELECT ... WHERE conditions, in rowid order
SelectWhere(table, conditions) ==
  LET ids == {i \in DOMAIN table : Matches(conditions, RowOf(table, i))}
      s == SortedIds(ids)
  IN [k \in 1..Len(s) |-> RowOf(table, s[k])]

LimitOffset_NoOffset(rows, n, o) ==
  [k \in 1..Max(0, Min(n, Len(rows))) |-> rows[k]]

\* LIMIT n OFFSET o (SQLite: a negative limit is no limit, a negative
\* offset is offset 0)
LimitOffset(rows, n, o) ==
  LET off == Max(o, 0)
      lim == IF n < 0 THEN Len(rows) ELSE n
      cnt == Max(0, Min(lim, Len(rows) - off))
  IN [k \in 1..cnt |-> rows[off + k]]

\* UPDATE ... SET deletedAt = v WHERE conditions
UpdateMarkerWhere(table, conditions, v) ==
  [i \in DOMAIN table |->
     IF Matches(conditions, RowOf(table, i))
     THEN [table[i] EXCEPT !.deletedAt = v]
     ELSE table[i]]

\* DELETE ... WHERE conditions
DeleteWhere(table, conditions) ==
  [i \in {j \in DOMAIN table : ~Matches(conditions, RowOf(table, j))} |->
     table[i]]

-----------------------------------------------------------------------------
(* Calls and their outcomes *)

\* OperationContext: {db?, scope?, actor?, skipValidation?}
NoContext ==
  [db |-> "none", scope |-> "none", actor |-> "none", skipValidation |-> FALSE]

\* FilterParams: plain fields plus the reserved AND / OR lists
NoFilters ==
  [hasAND |-> FALSE, AND |-> <<>>, hasOR |-> FALSE, OR |-> <<>>,
   fields |-> <<>>]

\* ListParams
NoParams ==
  [page |-> Undefined, perPage |-> Undefined, search |-> <<>>,
   filters |-> NoFilters, orderBy |-> <<>>, includeDeleted |-> FALSE]

\* A payload: the columns given, and a key that is no column of the table
NoData == [tenantId |-> "?", val |-> Absent, extra |-> "?"]
NoWhere == [id |-> Undefined, val |-> Absent]

NoCall ==
  [op |-> "none", id |-> 0, ids |-> <<>>, data |-> NoData, items |-> <<>>,
   where |-> NoWhere, params |-> NoParams, ctx |-> NoContext]

\* requests: the statements the call sent to the database, in order;
\* handles: the database handle each of those statements was sent to;
\* stages: the validation stages and hooks the call invoked, in order;
\* hookInput: the payloads handed to beforeCreate / beforeUpdate;
\* values: the payloads handed to the insert or update statement;
\* others: the statements other callers got in between this call's own
NoResult ==
  [ok |-> TRUE, err |-> "", rows |-> <<>>, success |-> FALSE, count |-> 0,
   page |-> 0, perPage |-> 0, totalItems |-> 0, totalPages |-> 0,
   hasNextPage |-> FALSE, hasPreviousPage |-> FALSE,
   requests |-> <<>>, handles |-> <<>>, stages |-> <<>>, hookInput |-> <<>>,
   values |-> <<>>, others |-> <<>>]

Fail(e) == [NoResult EXCEPT !.ok = FALSE, !.err = e]

\* The outcome r of a call that sent `requests` to the database `handle`
\* and invoked `stages`
Sent(handle, r, requests, stages) ==
  [r EXCEPT !.requests = requests,
            !.handles = [i \in 1..Len(requests) |-> handle],
            !.stages = stages]

-----------------------------------------------------------------------------
(* Context resolution, validation stage, hooks *)

getDb(context) == IF context.db = "none" THEN "default" ELSE context.db

\* hooks.validate as configured: an admin actor skips schema validation
validateHook(data, context, operation) == context.actor # "admin"

\* The hook named by c.throws carries a rule of its own: it throws on a
\* payload of tenant B
Throws(c, hook, data) == c.throws = hook /\ data.tenantId = "B"

\* The list schema of the validation adapter: page and perPage are positive
\* integers, perPage at most maxPageSize, each optional with its default.
listSchema(params) ==
  IF \/ params.page # Undefined /\ params.page < 1
     \/ params.perPage # Undefined /\ params.perPage < 1
     \/ params.perPage # Undefined /\ params.perPage > MaxPageSize
  THEN [ok |-> FALSE, data |-> params]
  ELSE [ok |-> TRUE,
        data |-> [params EXCEPT
                    !.page = IF @ = Undefined THEN 1 ELSE @,
                    !.perPage = IF @ = Undefined THEN DefaultPageSize ELSE @]]

\* The insert schema: every required column is present; keys that are no
\* column are stripped from the output.
insertSchema(data) ==
  [ok |-> data.val # Absent /\ data.tenantId # "?",
   data |-> [data EXCEPT !.extra = "?"]]

\* The update schema: any partial row.
updateSchema(data) == [ok |-> TRUE, data |-> data]

standardValidate(schema, data) ==
  CASE schema = "list" -> listSchema(data)
    [] schema = "insert" -> insertSchema(data)
    [] OTHER -> updateSchema(data)

\* The outcome of the validation stage: the data handed on, or the error
\* thrown; ran: the stages invoked, "validate" (the hook) and "schema"
Validated(data, ran) == [ok |-> TRUE, err |-> "", data |-> data, ran |-> ran]

Rejected(err, data, ran) ==
  [ok |-> FALSE, err |-> err, data |-> data, ran |-> ran]

validate_IgnoresHookResult(c, operation, data, schema, context) ==
  IF context.skipValidation THEN Validated(data, <<>>)
  ELSE LET hook == IF c.validateHook THEN <<"validate">> ELSE <<>>
       IN IF c.validation
          THEN LET out == standardValidate(schema, data)
               IN IF out.ok THEN Validated(out.data, Append(hook, "schema"))
                  ELSE Rejected("validation", out.data, Append(hook, "schema"))
          ELSE Validated(data, hook)

validate(c, operation, data, schema, context) ==
  IF context.skipValidation THEN Validated(data, <<>>)
  ELSE LET hook == IF c.validateHook THEN <<"validate">> ELSE <<>>
       IN IF c.validateHook /\ Throws(c, "validate", data)
          THEN Rejected("validate", data, hook)
          ELSE IF c.validateHook /\ ~validateHook(data, context, operation)
          THEN Validated(data, hook)
          ELSE IF c.validation
          THEN LET out == standardValidate(schema, data)
               IN IF out.ok THEN Validated(out.data, Append(hook, "schema"))
                  ELSE Rejected("validation", out.data, Append(hook, "schema"))
          ELSE Validated(data, hook)

\* hooks.beforeCreate as configured: prefixes the name
beforeCreate(c, data) ==
  IF c.beforeCreate /\ data.val # Absent
  THEN [data EXCEPT !.val = <<"h">> \o @]
  ELSE data

\* hooks.beforeUpdate as configured: removes val from the updates
beforeUpdate(c, data) ==
  IF c.beforeUpdate THEN [data EXCEPT !.val = Absent] ELSE data

Keys_EveryColumn(data) == {"tenantId", "val"}

\* Object.keys(transformed)
Keys(data) ==
  {f \in {"tenantId", "val", "extra"} :
     CASE f = "val" -> data.val # Absent
       [] f = "tenantId" -> data.tenantId # "?"
       [] OTHER -> data.extra # "?"}

-----------------------------------------------------------------------------
(* Scope and soft-delete composers *)

\* The configured scope function for key tenantId: no restriction for an
\* admin actor or when no scope value is given
scopeFn(value, actor) ==
  IF actor = "admin" \/ value = "none" THEN <<>>
  ELSE <<Eq("tenantId", value)>>

applyScopeFilters_Ignored(c, conditions, context) == conditions

applyScopeFilters_AlwaysPush(c, conditions, context) ==
  IF c.scopeFilters
  THEN Append(conditions, Eq("tenantId", context.scope))
  ELSE conditions

applyScopeFilters(c, conditions, context) ==
  IF c.scopeFilters
  THEN conditions \o scopeFn(context.scope, context.actor)
  ELSE conditions

applySoftDeleteFilter_Off(c, conditions, includeDeleted) == conditions

applySoftDeleteFilter(c, conditions, includeDeleted) ==
  IF ~c.softDelete \/ includeDeleted THEN conditions
  ELSE LET notDeletedValue ==
             IF c.notDeletedValue = Undefined THEN Null ELSE c.notDeletedValue
       IN IF notDeletedValue = Null
          THEN Append(conditions, IsNull("deletedAt"))
          ELSE Append(conditions, Eq("deletedAt", notDeletedValue))

getSoftDeleteValues_AlwaysNow(c, now) ==
  [deletedValue |-> now, notDeletedValue |-> Null]

getSoftDeleteValues_KeepsMarker(c, now) ==
  [deletedValue |-> IF c.deletedValue = Undefined THEN now ELSE c.deletedValue,
   notDeletedValue |-> FixedDeletedValue]

\* deletedValue ?? new Date(), notDeletedValue ?? null
getSoftDeleteValues(c, now) ==
  [deletedValue |->
     IF c.deletedValue = Undefined THEN now ELSE c.deletedValue,
   notDeletedValue |->
     IF c.notDeletedValue = Undefined THEN Null ELSE c.notDeletedValue]

\* search?.trim()
RECURSIVE TrimLeft(_)
TrimLeft(s) ==
  IF s # <<>> /\ Head(s) = " " THEN TrimLeft(Tail(s)) ELSE s

Trim(s) == Reverse(TrimLeft(Reverse(TrimLeft(s))))

applySearch(c, conditions, search) ==
  IF Trim(search) # <<>> /\ Len(c.searchFields) > 0
  THEN Append(conditions,
              Or([i \in 1..Len(c.searchFields) |->
                    Like(c.searchFields[i],
                         <<"%">> \o search \o <<"%">>)]))
  ELSE conditions

-----------------------------------------------------------------------------
(* Filter compiler *)

Ne(col, v) == [op |-> "ne", col |-> col, val |-> v]
Gt(col, v) == [op |-> "gt", col |-> col, val |-> v]
Gte(col, v) == [op |-> "gte", col |-> col, val |-> v]
Lt(col, v) == [op |-> "lt", col |-> col, val |-> v]
Lte(col, v) == [op |-> "lte", col |-> col, val |-> v]
NotInArray(col, S) == [op |-> "notInArray", col |-> col, val |-> S]
ILike(col, pat) == [op |-> "ilike", col |-> col, val |-> pat]

parseOperator_DefaultEquals(column, o) ==
  CASE o.op = "not" -> <<Ne(column, o.val)>>
    [] o.op = "gt" -> <<Gt(column, o.val)>>
    [] o.op = "gte" -> <<Gte(column, o.val)>>
    [] o.op = "lt" -> <<Lt(column, o.val)>>
    [] o.op = "lte" -> <<Lte(column, o.val)>>
    [] o.op = "in" ->
         <<InArray(column, IF o.isArray THEN o.val ELSE {o.val})>>
    [] o.op = "notIn" ->
         <<NotInArray(column, IF o.isArray THEN o.val ELSE {o.val})>>
    [] o.op = "like" -> <<Like(column, o.val)>>
    [] o.op = "ilike" -> <<ILike(column, o.val)>>
    [] OTHER -> <<Eq(column, o.val)>>

\* One operator of an operator map: [op, val, isArray]
parseOperator(column, o) ==
  CASE o.op = "equals" -> <<Eq(column, o.val)>>
    [] o.op = "not" -> <<Ne(column, o.val)>>
    [] o.op = "gt" -> <<Gt(column, o.val)>>
    [] o.op = "gte" -> <<Gte(column, o.val)>>
    [] o.op = "lt" -> <<Lt(column, o.val)>>
    [] o.op = "lte" -> <<Lte(column, o.val)>>
    [] o.op = "in" ->
         <<InArray(column, IF o.isArray THEN o.val ELSE {o.val})>>
    [] o.op = "notIn" ->
         <<NotInArray(column, IF o.isArray THEN o.val ELSE {o.val})>>
    [] o.op = "like" -> <<Like(column, o.val)>>
    [] o.op = "ilike" -> <<ILike(column, o.val)>>
    [] OTHER -> <<>>

RECURSIVE parseOperators(_, _)
parseOperators(column, ops) ==
  IF ops = <<>> THEN <<>>
  ELSE parseOperator(column, Head(ops)) \o parseOperators(column, Tail(ops))

InSeq(x, s) == \E i \in 1..Len(s) : s[i] = x

\* One field of a filter group: [key, kind, val, ops], kind being
\* "undefined", "value" (scalar, array, date or null) or "ops" (operator map)
parseFilterEntry_NoAllowList(e, allowedFilters) ==
  IF e.kind = "undefined" THEN <<>>
  ELSE IF e.kind = "ops" THEN parseOperators(e.key, e.ops)
  ELSE <<Eq(e.key, e.val)>>

parseFilterEntry(e, allowedFilters) ==
  IF e.kind = "undefined" THEN <<>>
  ELSE IF Len(allowedFilters) > 0 /\ ~InSeq(e.key, allowedFilters) THEN <<>>
  ELSE IF e.kind = "ops" THEN parseOperators(e.key, e.ops)
  ELSE <<Eq(e.key, e.val)>>

RECURSIVE parseFilterGroup(_, _)
parseFilterGroup(filters, allowedFilters) ==
  IF filters = <<>> THEN <<>>
  ELSE parseFilterEntry(Head(filters), allowedFilters)
         \o parseFilterGroup(Tail(filters), allowedFilters)

\* filters.AND.map(...).filter(Boolean) and the same for OR
RECURSIVE GroupConditions(_, _)
GroupConditions(groups, allowedFilters) ==
  IF groups = <<>> THEN <<>>
  ELSE LET groupConditions == parseFilterGroup(Head(groups), allowedFilters)
           rest == GroupConditions(Tail(groups), allowedFilters)
       IN IF Len(groupConditions) > 1 THEN <<And(groupConditions)>> \o rest
          ELSE IF Len(groupConditions) = 1 THEN <<groupConditions[1]>> \o rest
          ELSE rest

parseFilters_OrJoinedByAnd(filters, allowedFilters) ==
  IF filters.hasAND \/ filters.hasOR
  THEN LET andConditions == GroupConditions(filters.AND, allowedFilters)
           orConditions == GroupConditions(filters.OR, allowedFilters)
       IN (IF filters.hasAND /\ Len(andConditions) > 0
           THEN <<And(andConditions)>> ELSE <<>>)
          \o (IF filters.hasOR /\ Len(orConditions) > 0
              THEN <<And(orConditions)>> ELSE <<>>)
          \o parseFilterGroup(filters.fields, allowedFilters)
  ELSE parseFilterGroup(filters.fields, allowedFilters)

parseFilters(filters, allowedFilters) ==
  IF filters.hasAND \/ filters.hasOR
  THEN LET andConditions == GroupConditions(filters.AND, allowedFilters)
           orConditions == GroupConditions(filters.OR, allowedFilters)
       IN (IF filters.hasAND /\ Len(andConditions) > 0
           THEN <<And(andConditions)>> ELSE <<>>)
          \o (IF filters.hasOR /\ Len(orConditions) > 0
              THEN <<Or(orConditions)>> ELSE <<>>)
          \o parseFilterGroup(filters.fields, allowedFilters)
  ELSE parseFilterGroup(filters.fields, allowedFilters)

-----------------------------------------------------------------------------
(* Pagination engine *)

\* x || d
OrElse(x, d) == IF x = Undefined \/ x = 0 THEN d ELSE x

\* Math.ceil(a / b), b # 0
CeilDiv(a, b) == IF b > 0 THEN -((-a) \div b) ELSE -(a \div (-b))

PerPageOf_Unclamped(validatedParams) ==
  OrElse(validatedParams.perPage, DefaultPageSize)

PerPageOf(validatedParams) ==
  Min(OrElse(validatedParams.perPage, DefaultPageSize), MaxPageSize)

PageOf(validatedParams) == OrElse(validatedParams.page, 1)

OffsetOf_FromPage(page, perPage) == page * perPage

OffsetOf(page, perPage) == (page - 1) * perPage

TotalPagesOf_AtLeastOne(totalItems, perPage) ==
  Max(1, CeilDiv(totalItems, perPage))

TotalPagesOf(totalItems, perPage) == CeilDiv(totalItems, perPage)

HasNextPageOf_Inclusive(page, totalPages) == page <= totalPages

HasNextPageOf(page, totalPages) == page < totalPages

HasPreviousPageOf(page) == page > 1

\* .orderBy(asc(id) | desc(id)); without orderBy the scan order is kept
OrderRows(rows, orderBy) ==
  IF Len(orderBy) > 0 /\ orderBy[1].direction = "desc" THEN Reverse(rows)
  ELSE rows

-----------------------------------------------------------------------------
(* Operations *)

\* What every call records: the call, its outcome, the tables before it
Record(c, r) ==
  /\ call' = c
  /\ res' = r
  /\ before' = tables
  /\ UNCHANGED <<clock, cfg>>

\* No call is in progress
Idle == call.op = "none"

\* The caller has received the outcome of its call
Return ==
  /\ ~Idle
  /\ call' = NoCall
  /\ res' = NoResult
  /\ before' = tables
  /\ UNCHANGED <<tables, seq, clock, cfg>>

Tick ==
  /\ Idle
  /\ clock < MaxClock
  /\ clock' = clock + 1
  /\ UNCHANGED <<tables, seq, cfg, call, res, before>>

create(data, context) ==
  LET c == [NoCall EXCEPT !.op = "create", !.data = data, !.ctx = context]
      validated == validate(cfg, "create", data, "insert", context)
      transformed == beforeCreate(cfg, validated.data)
      dbInstance == getDb(context)
      id == seq[dbInstance] + 1
      row == [tenantId |-> transformed.tenantId, val |-> transformed.val,
              deletedAt |-> Null]
      stages == validated.ran
                  \o (IF cfg.beforeCreate THEN <<"beforeCreate">> ELSE <<>>)
      hookInput == IF cfg.beforeCreate THEN <<validated.data>> ELSE <<>>
  IN IF ~validated.ok
     THEN /\ Record(c, Sent(dbInstance, Fail(validated.err), <<>>,
                            validated.ran))
          /\ UNCHANGED <<tables, seq>>
     ELSE IF cfg.beforeCreate /\ Throws(cfg, "beforeCreate", validated.data)
     THEN /\ Record(c, Sent(dbInstance,
                            [Fail("beforeCreate") EXCEPT
                               !.hookInput = hookInput],
                            <<>>, stages))
          /\ UNCHANGED <<tables, seq>>
     ELSE IF ~({"tenantId", "val"} \subseteq Keys(transformed))
     THEN /\ Record(c, Sent(dbInstance,
                            [Fail("constraint") EXCEPT
                               !.hookInput = hookInput,
                               !.values = <<transformed>>],
                            <<"insert">>, stages))
          /\ UNCHANGED <<tables, seq>>
     ELSE /\ tables' = [tables EXCEPT ![dbInstance] =
                          [i \in DOMAIN @ \cup {id} |->
                             IF i = id THEN row ELSE @[i]]]
          /\ seq' = [seq EXCEPT ![dbInstance] = id]
          /\ Record(c, Sent(dbInstance,
                            [NoResult EXCEPT
                               !.rows = <<[id |-> id,
                                           tenantId |-> row.tenantId,
                                           val |-> row.val,
                                           deletedAt |-> Null]>>,
                               !.hookInput = hookInput,
                               !.values = <<transformed>>],
                            <<"insert">>, stages))

list(params, context) ==
  LET c == [NoCall EXCEPT !.op = "list", !.params = params, !.ctx = context]
      dbInstance == getDb(context)
      validated == validate(cfg, "list", params, "list", context)
      validatedParams == validated.data
      conditions ==
        applySoftDeleteFilter(cfg,
          applyScopeFilters(cfg,
            applySearch(cfg,
              parseFilters(validatedParams.filters, cfg.allowedFilters),
              validatedParams.search),
            context),
          validatedParams.includeDeleted)
      perPage == PerPageOf(validatedParams)
      page == PageOf(validatedParams)
      offset == OffsetOf(page, perPage)
      matching == SelectWhere(tables[dbInstance], conditions)
      data == LimitOffset(OrderRows(matching, validatedParams.orderBy),
                          perPage, offset)
      totalItems == Len(matching)
      totalPages == TotalPagesOf(totalItems, perPage)
  IN /\ UNCHANGED <<tables, seq>>
     /\ IF ~validated.ok
        THEN Record(c, Sent(dbInstance, Fail(validated.err), <<>>,
                            validated.ran))
        ELSE \E bind \in BindOutcomes(conditions) :
          IF StoreRejects(conditions) \/ bind = "throw"
          THEN Record(c, Sent(dbInstance, Fail("store"), <<"select">>,
                              validated.ran))
          ELSE Record(c, Sent(dbInstance,
                              [NoResult EXCEPT
                               !.rows = data,
                               !.page = page,
                               !.perPage = perPage,
                               !.totalItems = totalItems,
                               !.totalPages = totalPages,
                               !.hasNextPage = HasNextPageOf(page, totalPages),
                               !.hasPreviousPage = HasPreviousPageOf(page)],
                            <<"select", "select">>, validated.ran))

FirstRow_None(rows) == <<>>

\* SELECT ... WHERE ... LIMIT 1
FirstRow(rows) == IF Len(rows) > 0 THEN <<rows[1]>> ELSE <<>>

UpdateWhere_NoWrite(table, conditions, data) == table

\* UPDATE ... SET data WHERE conditions
UpdateWhere(table, conditions, data) ==
  [i \in DOMAIN table |->
     IF Matches(conditions, RowOf(table, i))
     THEN [table[i] EXCEPT
             !.tenantId = IF data.tenantId # "?" THEN data.tenantId ELSE @,
             !.val = IF data.val # Absent THEN data.val ELSE @]
     ELSE table[i]]

findOne_Unguarded(where, params, context) ==
  LET c == [NoCall EXCEPT !.op = "findOne", !.where = where,
                          !.params = params, !.ctx = context]
      whereConditions ==
        (IF where.id # Undefined THEN <<Eq("id", where.id)>> ELSE <<>>)
          \o (IF where.val # Absent THEN <<Eq("val", where.val)>> ELSE <<>>)
      conditions ==
        applySoftDeleteFilter(cfg,
          applyScopeFilters(cfg, whereConditions, context),
          params.includeDeleted)
      dbInstance == getDb(context)
      result == FirstRow(SelectWhere(tables[dbInstance], conditions))
  IN /\ UNCHANGED <<tables, seq>>
     /\ Record(c, Sent(dbInstance, [NoResult EXCEPT !.rows = result],
                       <<"select">>, <<>>))

findOne(where, params, context) ==
  LET c == [NoCall EXCEPT !.op = "findOne", !.where = where,
                          !.params = params, !.ctx = context]
      dbInstance == getDb(context)
      whereConditions ==
        (IF where.id # Undefined THEN <<Eq("id", where.id)>> ELSE <<>>)
          \o (IF where.val # Absent THEN <<Eq("val", where.val)>> ELSE <<>>)
      conditions ==
        applySoftDeleteFilter(cfg,
          applyScopeFilters(cfg, whereConditions, context),
          params.includeDeleted)
      result == FirstRow(SelectWhere(tables[dbInstance], conditions))
  IN /\ UNCHANGED <<tables, seq>>
     /\ IF Len(whereConditions) = 0
        THEN Record(c, Fail("usage"))
        ELSE Record(c, Sent(dbInstance, [NoResult EXCEPT !.rows = result],
                            <<"select">>, <<>>))

update(id, updates, context) ==
  LET c == [NoCall EXCEPT !.op = "update", !.id = id, !.data = updates,
                          !.ctx = context]
      validated == validate(cfg, "update", updates, "update", context)
      transformed == beforeUpdate(cfg, validated.data)
      dbInstance == getDb(context)
      conditions ==
        applySoftDeleteFilter(cfg,
          applyScopeFilters(cfg, <<Eq("id", id)>>, context),
          FALSE)
      written == UpdateWhere(tables[dbInstance], conditions, transformed)
      result == FirstRow(SelectWhere(written, <<Eq("id", id)>>))
      stages == validated.ran
                  \o (IF cfg.beforeUpdate THEN <<"beforeUpdate">> ELSE <<>>)
      hookInput == IF cfg.beforeUpdate THEN <<validated.data>> ELSE <<>>
  IN IF ~validated.ok
     THEN /\ Record(c, Sent(dbInstance, Fail(validated.err), <<>>,
                            validated.ran))
          /\ UNCHANGED <<tables, seq>>
     ELSE IF cfg.beforeUpdate /\ Throws(cfg, "beforeUpdate", validated.data)
     THEN /\ Record(c, Sent(dbInstance,
                            [Fail("beforeUpdate") EXCEPT
                               !.hookInput = hookInput],
                            <<>>, stages))
          /\ UNCHANGED <<tables, seq>>
     ELSE IF Keys(transformed) = {}
     THEN \* no fields to update: the existing record, read from db, the
          \* database the operations were built with
          /\ Record(c, Sent("default",
                            [NoResult EXCEPT
                               !.rows = FirstRow(SelectWhere(tables["default"],
                                                  <<Eq("id", id)>>)),
                               !.hookInput = hookInput],
                            <<"select">>, stages))
          /\ UNCHANGED <<tables, seq>>
     ELSE /\ tables' = [tables EXCEPT ![dbInstance] = written]
          /\ UNCHANGED seq
          /\ IF Len(result) = 0
             THEN Record(c, Sent(dbInstance,
                                 [Fail("notfound") EXCEPT
                                    !.hookInput = hookInput,
                                    !.values = <<transformed>>],
                                 <<"update", "select">>, stages))
             ELSE Record(c, Sent(dbInstance,
                                 [NoResult EXCEPT
                                    !.rows = result,
                                    !.hookInput = hookInput,
                                    !.values = <<transformed>>],
                                 <<"update", "select">>, stages))

deleteOne(id, context) ==
  LET c == [NoCall EXCEPT !.op = "deleteOne", !.id = id, !.ctx = context]
      dbInstance == getDb(context)
      conditions == applyScopeFilters(cfg, <<Eq("id", id)>>, context)
      deleteValues == getSoftDeleteValues(cfg, clock)
  IN /\ tables' = [tables EXCEPT ![dbInstance] =
                     IF cfg.softDelete
                     THEN UpdateMarkerWhere(@, conditions,
                                            deleteValues.deletedValue)
                     ELSE DeleteWhere(@, conditions)]
     /\ UNCHANGED seq
     /\ Record(c, Sent(dbInstance, [NoResult EXCEPT !.success = TRUE],
                       IF cfg.softDelete THEN <<"update">> ELSE <<"delete">>,
                       <<>>))

restore_Unchecked(id, context) ==
  LET c == [NoCall EXCEPT !.op = "restore", !.id = id, !.ctx = context]
      dbInstance == getDb(context)
      conditions == applyScopeFilters(cfg, <<Eq("id", id)>>, context)
      returning == SelectWhere(tables[dbInstance], conditions)
  IN /\ tables' = [tables EXCEPT ![dbInstance] =
                     UpdateMarkerWhere(@, conditions, Null)]
     /\ UNCHANGED seq
     /\ Record(c, Sent(dbInstance,
                       [NoResult EXCEPT !.success = Len(returning) > 0],
                       <<"update">>, <<>>))

restore(id, context) ==
  LET c == [NoCall EXCEPT !.op = "restore", !.id = id, !.ctx = context]
      dbInstance == getDb(context)
      deleteValues == getSoftDeleteValues(cfg, clock)
      conditions == applyScopeFilters(cfg, <<Eq("id", id)>>, context)
      returning == SelectWhere(tables[dbInstance], conditions)
  IN IF ~cfg.softDelete
     THEN Record(c, Fail("config")) /\ UNCHANGED <<tables, seq>>
     ELSE /\ tables' = [tables EXCEPT ![dbInstance] =
                          UpdateMarkerWhere(@, conditions,
                                            deleteValues.notDeletedValue)]
          /\ UNCHANGED seq
          /\ Record(c, Sent(dbInstance,
                            [NoResult EXCEPT !.success = Len(returning) > 0],
                            <<"update">>, <<>>))

permanentDelete(id, context) ==
  LET c == [NoCall EXCEPT !.op = "permanentDelete", !.id = id,
                          !.ctx = context]
      dbInstance == getDb(context)
      existing == FirstRow(SelectWhere(tables[dbInstance], <<Eq("id", id)>>))
      conditions == applyScopeFilters(cfg, <<Eq("id", id)>>, context)
  IN IF Len(existing) = 0
     THEN /\ Record(c, Sent(dbInstance, Fail("notfound"), <<"select">>, <<>>))
          /\ UNCHANGED <<tables, seq>>
     ELSE /\ tables' = [tables EXCEPT ![dbInstance] =
                          DeleteWhere(@, conditions)]
          /\ UNCHANGED seq
          /\ Record(c, Sent(dbInstance, [NoResult EXCEPT !.success = TRUE],
                            <<"select", "delete">>, <<>>))

RECURSIVE TransformAll_SkipsRejected(_, _)
TransformAll_SkipsRejected(items, context) ==
  IF items = <<>> THEN <<>>
  ELSE LET validated ==
             validate(cfg, "bulkCreate", Head(items), "insert", context)
           rest == TransformAll_SkipsRejected(Tail(items), context)
       IN IF \/ ~validated.ok
             \/ cfg.beforeCreate /\ Throws(cfg, "beforeCreate", validated.data)
          THEN rest
          ELSE <<[ok |-> TRUE, err |-> "",
                  validated |-> validated.data,
                  data |-> beforeCreate(cfg, validated.data),
                  ran |-> validated.ran]>> \o rest

\* validate and beforeCreate over every item (Promise.all of the map); ok:
\* the item's validation resolved; err: the error the item's promise
\* rejects with, if any
RECURSIVE TransformAll(_, _)
TransformAll(items, context) ==
  IF items = <<>> THEN <<>>
  ELSE LET validated ==
             validate(cfg, "bulkCreate", Head(items), "insert", context)
       IN <<[ok |-> validated.ok,
             err |-> IF ~validated.ok THEN validated.err
                     ELSE IF cfg.beforeCreate
                             /\ Throws(cfg, "beforeCreate", validated.data)
                     THEN "beforeCreate"
                     ELSE "",
             validated |-> validated.data,
             data |-> beforeCreate(cfg, validated.data),
             ran |-> validated.ran]>>
            \o TransformAll(Tail(items), context)

\* The stages of the map: each item's validation up to its await, then the
\* beforeCreate hook of each item whose validation resolved
RECURSIVE StagesOfAll(_, _)
StagesOfAll(transformedData, hooksRun) ==
  IF transformedData = <<>> THEN hooksRun
  ELSE Head(transformedData).ran
         \o StagesOfAll(Tail(transformedData),
                        IF cfg.beforeCreate /\ Head(transformedData).ok
                        THEN Append(hooksRun, "beforeCreate")
                        ELSE hooksRun)

\* The map over the items and the single insert of bulkCreate: Promise.all
\* rejects with the error of one of the rejected items and nothing is
\* inserted; insert().values([]) throws before any statement is sent
bulkInsert(data, context) ==
  LET c == [NoCall EXCEPT !.op = "bulkCreate", !.items = data,
                          !.ctx = context]
      dbInstance == getDb(context)
      transformedData == TransformAll(data, context)
      first == seq[dbInstance]
      n == Len(transformedData)
      items == [k \in 1..n |->
                  [id |-> first + k,
                   tenantId |-> transformedData[k].data.tenantId,
                   val |-> transformedData[k].data.val,
                   deletedAt |-> Null]]
      stages == StagesOfAll(transformedData, <<>>)
      hooked == {k \in 1..n : cfg.beforeCreate /\ transformedData[k].ok}
      hookedInOrder == SortedIds(hooked)
      hookInput == [j \in 1..Len(hookedInOrder) |->
                      transformedData[hookedInOrder[j]].validated]
      values == [k \in 1..n |-> transformedData[k].data]
      rejected == {k \in 1..n : transformedData[k].err # ""}
  IN IF n = 0
     THEN /\ Record(c, Fail("store"))
          /\ UNCHANGED <<tables, seq>>
     ELSE IF rejected # {}
     THEN /\ \E k \in rejected :
               Record(c, Sent(dbInstance,
                              [Fail(transformedData[k].err) EXCEPT
                                 !.hookInput = hookInput],
                              <<>>, stages))
          /\ UNCHANGED <<tables, seq>>
     ELSE IF \E k \in 1..n :
               ~({"tenantId", "val"} \subseteq Keys(transformedData[k].data))
     THEN /\ Record(c, Sent(dbInstance,
                            [Fail("constraint") EXCEPT
                               !.hookInput = hookInput, !.values = values],
                            <<"insert">>, stages))
          /\ UNCHANGED <<tables, seq>>
     ELSE /\ tables' = [tables EXCEPT ![dbInstance] =
                          [i \in DOMAIN @ \cup (first + 1 .. first + n) |->
                             IF i > first
                             THEN [tenantId |-> items[i - first].tenantId,
                                   val |-> items[i - first].val,
                                   deletedAt |-> Null]
                             ELSE @[i]]]
          /\ seq' = [seq EXCEPT ![dbInstance] = first + n]
          /\ Record(c, Sent(dbInstance,
                            [NoResult EXCEPT !.success = TRUE, !.count = n,
                                             !.rows = items,
                                             !.hookInput = hookInput,
                                             !.values = values],
                            <<"insert">>, stages))

bulkCreate_NoEmptyGuard(data, context) == bulkInsert(data, context)

bulkCreate(data, context) ==
  IF Len(data) = 0
  THEN /\ Record([NoCall EXCEPT !.op = "bulkCreate", !.items = data,
                                !.ctx = context],
                 [NoResult EXCEPT !.success = TRUE, !.count = 0])
       /\ UNCHANGED <<tables, seq>>
  ELSE bulkInsert(data, context)

IdSet(ids) == {ids[k] : k \in 1..Len(ids)}

bulkDelete(ids, context) ==
  LET c == [NoCall EXCEPT !.op = "bulkDelete", !.ids = ids, !.ctx = context]
      dbInstance == getDb(context)
      existing ==
        SelectWhere(tables[dbInstance], <<InArray("id", IdSet(ids))>>)
      conditions ==
        applyScopeFilters(cfg, <<InArray("id", IdSet(ids))>>, context)
      deleteValues == getSoftDeleteValues(cfg, clock)
  IN IF Len(existing) = 0
     THEN /\ Record(c, Sent(dbInstance,
                            [NoResult EXCEPT !.success = TRUE, !.count = 0],
                            <<"select">>, <<>>))
          /\ UNCHANGED <<tables, seq>>
     ELSE /\ tables' = [tables EXCEPT ![dbInstance] =
                          IF cfg.softDelete
                          THEN UpdateMarkerWhere(@, conditions,
                                                 deleteValues.deletedValue)
                          ELSE DeleteWhere(@, conditions)]
          /\ UNCHANGED seq
          /\ Record(c, Sent(dbInstance,
                            [NoResult EXCEPT !.success = TRUE,
                                             !.count = Len(existing)],
                            IF cfg.softDelete THEN <<"select", "update">>
                            ELSE <<"select", "delete">>,
                            <<>>))

\* The SQLite drivers report no rowCount: count falls back to ids.length
bulkRestore(ids, context) ==
  LET c == [NoCall EXCEPT !.op = "bulkRestore", !.ids = ids,
                          !.ctx = context]
      dbInstance == getDb(context)
      deleteValues == getSoftDeleteValues(cfg, clock)
      conditions ==
        applyScopeFilters(cfg, <<InArray("id", IdSet(ids))>>, context)
  IN IF ~cfg.softDelete
     THEN Record(c, Fail("config")) /\ UNCHANGED <<tables, seq>>
     ELSE /\ tables' = [tables EXCEPT ![dbInstance] =
                          UpdateMarkerWhere(@, conditions,
                                            deleteValues.notDeletedValue)]
          /\ UNCHANGED seq
          /\ Record(c, Sent(dbInstance,
                            [NoResult EXCEPT !.success = TRUE,
                                             !.count = Len(ids)],
                            <<"update">>, <<>>))

-----------------------------------------------------------------------------
(* Configurations and inputs *)

BaseConfig ==
  [softDelete |-> FALSE, deletedValue |-> Undefined,
   notDeletedValue |-> Undefined, scopeFilters |-> FALSE,
   validation |-> FALSE, validateHook |-> FALSE, beforeCreate |-> FALSE,
   beforeUpdate |-> FALSE, searchFields |-> <<"val">>,
   allowedFilters |-> <<>>, dialect |-> "sqlite", throws |-> "none"]

InitWith(configs) ==
  /\ tables = [h \in Handles |-> NoRows]
  /\ seq = [h \in Handles |-> 0]
  /\ clock = 1
  /\ cfg \in configs
  /\ call = NoCall
  /\ res = NoResult
  /\ before = tables

-----------------------------------------------------------------------------
(* Pagination: list over 0..MaxListId rows, every page and perPage *)

MaxListId == MaxPageSize + 1

ListConfigs == {[BaseConfig EXCEPT !.validation = v] : v \in BOOLEAN}

PageInputs == {Undefined} \cup (-1 .. 3)
PerPageInputs == {Undefined} \cup (-1 .. (MaxPageSize + 1))
ListContexts == {[NoContext EXCEPT !.skipValidation = b] : b \in BOOLEAN}

InitList == InitWith(ListConfigs)

NextList ==
  \/ Return
  \/ /\ Idle
     /\ seq["default"] < MaxListId
     /\ create([NoData EXCEPT !.tenantId = "A", !.val = <<"a">>], NoContext)
  \/ \E p \in PageInputs, pp \in PerPageInputs, context \in ListContexts :
       Idle /\ list([NoParams EXCEPT !.page = p, !.perPage = pp], context)

SpecList == InitList /\ [][NextList]_vars

-----------------------------------------------------------------------------
(* The operation pipeline over one database: every operation, with and     *)
(* without soft delete and scope filters                                   *)

Configs ==
  {[BaseConfig EXCEPT !.softDelete = sd, !.deletedValue = dv,
                      !.scopeFilters = sc] :
     sd \in BOOLEAN, dv \in {Undefined, FixedDeletedValue},
     sc \in BOOLEAN}
  \ {[BaseConfig EXCEPT !.deletedValue = FixedDeletedValue,
                        !.scopeFilters = sc] : sc \in BOOLEAN}

Contexts ==
  {NoContext,
   [NoContext EXCEPT !.scope = "A", !.actor = "user"],
   [NoContext EXCEPT !.scope = "A", !.actor = "admin"]}

Ids == 1..MaxId

DataInputs ==
  {[NoData EXCEPT !.tenantId = t, !.val = <<"a">>] : t \in Tenants}

UpdateInputs ==
  {NoData, [NoData EXCEPT !.val = <<"b", "a">>],
   [NoData EXCEPT !.tenantId = "B"]}

IdLists == {SortedIds(S) : S \in SUBSET Ids}

ValFilter(v) ==
  [NoFilters EXCEPT
     !.fields = <<[key |-> "val", kind |-> "value", val |-> v, ops |-> <<>>]>>]

ListInputs ==
  {[NoParams EXCEPT !.page = pg[1], !.perPage = pg[2], !.filters = f,
                    !.includeDeleted = d] :
     pg \in {<<Undefined, Undefined>>, <<2, 1>>},
     f \in {NoFilters, ValFilter(<<"a">>)},
     d \in BOOLEAN}

WhereInputs ==
  {[NoWhere EXCEPT !.id = i] : i \in Ids \cup {Undefined}}
    \cup {[NoWhere EXCEPT !.val = <<"a">>]}

Init == InitWith(Configs)

Next ==
  \/ Return
  \/ Tick
  \/ \E data \in DataInputs, context \in Contexts :
       Idle /\ seq["default"] < MaxId /\ create(data, context)
  \/ \E data \in DataInputs, context \in Contexts :
       \E items \in {<<>>, <<data>>, <<data, data>>} :
         /\ Idle
         /\ seq["default"] + Len(items) <= MaxId
         /\ bulkCreate(items, context)
  \/ \E where \in WhereInputs, d \in BOOLEAN, context \in Contexts :
       Idle /\ findOne(where, [NoParams EXCEPT !.includeDeleted = d], context)
  \/ \E params \in ListInputs, context \in Contexts :
       Idle /\ list(params, context)
  \/ \E id \in Ids, updates \in UpdateInputs, context \in Contexts :
       Idle /\ update(id, updates, context)
  \/ \E id \in Ids, context \in Contexts : Idle /\ deleteOne(id, context)
  \/ \E id \in Ids, context \in Contexts : Idle /\ restore(id, context)
  \/ \E id \in Ids, context \in Contexts :
       Idle /\ permanentDelete(id, context)
  \/ \E ids \in IdLists, context \in Contexts :
       Idle /\ bulkDelete(ids, context)
  \/ \E ids \in IdLists, context \in Contexts :
       Idle /\ bulkRestore(ids, context)

Spec == Init /\ [][Next]_vars

-----------------------------------------------------------------------------
(* The validation stage and the hooks: create, bulkCreate and update under *)
(* every combination of schema validation, validate hook, beforeCreate and *)
(* beforeUpdate, called with and without skipValidation                    *)

PipelineConfigs ==
  {[BaseConfig EXCEPT !.validation = v, !.validateHook = vh,
                      !.beforeCreate = bc, !.beforeUpdate = bu] :
     v \in BOOLEAN, vh \in BOOLEAN, bc \in BOOLEAN, bu \in BOOLEAN}

PipelineContexts ==
  {[NoContext EXCEPT !.actor = a, !.skipValidation = s] :
     a \in {"user", "admin"}, s \in BOOLEAN}

\* A complete payload, one with a key that is no column, one without val
PipelineData ==
  {[NoData EXCEPT !.tenantId = "A", !.val = <<"a">>],
   [NoData EXCEPT !.tenantId = "A", !.val = <<"a">>, !.extra = "x"],
   [NoData EXCEPT !.tenantId = "A"]}

PipelineItems ==
  {<<>>} \cup {<<d>> : d \in PipelineData}
    \cup {<<d1, d2>> : d1 \in PipelineData, d2 \in PipelineData}

PipelineUpdates == {NoData, [NoData EXCEPT !.val = <<"b", "a">>]}

InitPipeline == InitWith(PipelineConfigs)

NextPipeline ==
  \/ Return
  \/ \E data \in PipelineData, context \in PipelineContexts :
       Idle /\ seq["default"] < MaxId /\ create(data, context)
  \/ \E items \in PipelineItems, context \in PipelineContexts :
       /\ Idle
       /\ seq["default"] + Len(items) <= MaxId
       /\ bulkCreate(items, context)
  \/ \E id \in Ids, updates \in PipelineUpdates, context \in PipelineContexts :
       Idle /\ update(id, updates, context)

SpecPipeline == InitPipeline /\ [][NextPipeline]_vars

-----------------------------------------------------------------------------
(* The filter compiler: list over a small table with filter expressions    *)
(* holding AND and OR lists, plain fields, operator maps, undefined values *)
(* and unknown operators, with and without an allow-list, on both dialects *)

\* key: value
Field(key, v) == [key |-> key, kind |-> "value", val |-> v, ops |-> <<>>]

\* key: undefined
UndefinedField(key) ==
  [key |-> key, kind |-> "undefined", val |-> Sentinel(key), ops |-> <<>>]

\* key: {operator: value, ...}
OpsField(key, ops) ==
  [key |-> key, kind |-> "ops", val |-> Sentinel(key), ops |-> ops]

Op(name, v) == [op |-> name, val |-> v, isArray |-> FALSE]
OpArray(name, S) == [op |-> name, val |-> S, isArray |-> TRUE]

FilterEntries ==
  << Field("val", <<"a">>),
     UndefinedField("val"),
     OpsField("val", <<Op("like", <<"%", "a">>)>>),
     OpsField("val", <<Op("equals", Absent)>>),
     OpsField("val", <<Op("$invalid", <<"a">>)>>),
     OpsField("val", <<Op("not", <<"a">>), Op("notLike", <<"%", "b", "%">>)>>),
     OpsField("id", <<Op("gte", 2)>>),
     OpsField("id", <<Op("gt", 0), Op("lt", 2)>>),
     OpsField("id", <<Op("lte", 1)>>),
     OpsField("id", <<OpArray("in", {1})>>),
     OpsField("id", <<Op("in", 2)>>),
     OpsField("id", <<OpArray("notIn", {1})>>),
     Field("tenantId", "A"),
     OpsField("val", <<Op("ilike", <<"%", "a", "%">>)>>),
     OpsField("val", <<Op("equals", <<"A">>)>>),
     OpsField("id", <<Op("notIn", 1)>>) >>

\* The filter groups used as plain fields: none, each entry alone, and pairs
FilterGroups ==
  <<<<>>>> \o [i \in 1..Len(FilterEntries) |-> <<FilterEntries[i]>>]
    \o << <<FilterEntries[1], FilterEntries[13]>>,
          <<FilterEntries[13], FilterEntries[1]>>,
          <<FilterEntries[2], FilterEntries[7]>>,
          <<FilterEntries[4], FilterEntries[7]>>,
          <<FilterEntries[5], FilterEntries[7]>> >>

\* The AND lists: [absent], [], and lists of one or two groups
AndLists ==
  << [has |-> FALSE, list |-> <<>>],
     [has |-> TRUE, list |-> <<>>],
     [has |-> TRUE, list |-> << <<FilterEntries[1]>> >>],
     [has |-> TRUE, list |-> << <<FilterEntries[7]>> >>],
     [has |-> TRUE, list |-> << <<FilterEntries[1]>>, <<FilterEntries[7]>> >>],
     [has |-> TRUE, list |-> << <<FilterEntries[13]>>,
                                <<FilterEntries[3], FilterEntries[9]>> >>],
     [has |-> TRUE, list |-> << <<>> >>] >>

OrLists ==
  << [has |-> FALSE, list |-> <<>>],
     [has |-> TRUE, list |-> <<>>],
     [has |-> TRUE, list |-> << <<FilterEntries[1]>> >>],
     [has |-> TRUE, list |-> << <<FilterEntries[1]>>, <<FilterEntries[7]>> >>],
     [has |-> TRUE, list |-> << <<>>, <<FilterEntries[1]>> >>],
     [has |-> TRUE, list |-> << <<FilterEntries[2]>>, <<FilterEntries[7]>> >>],
     [has |-> TRUE, list |-> << <<FilterEntries[13], FilterEntries[15]>>,
                                <<FilterEntries[7]>> >>] >>

FilterOf(a, o, g) ==
  [hasAND |-> AndLists[a].has, AND |-> AndLists[a].list,
   hasOR |-> OrLists[o].has, OR |-> OrLists[o].list,
   fields |-> FilterGroups[g]]

FilterConfigs ==
  {[BaseConfig EXCEPT !.allowedFilters = al, !.dialect = dl] :
     al \in {<<>>, <<"val", "id">>}, dl \in {"sqlite", "pg"}}

FilterData ==
  {[NoData EXCEPT !.tenantId = "A", !.val = <<"a">>],
   [NoData EXCEPT !.tenantId = "B", !.val = <<"b", "a">>],
   [NoData EXCEPT !.tenantId = "A", !.val = <<"A">>]}

InitFilters == InitWith(FilterConfigs)

NextFilters ==
  \/ Return
  \/ \E data \in FilterData :
       Idle /\ seq["default"] < MaxId /\ create(data, NoContext)
  \/ \E a \in 1..Len(AndLists), o \in 1..Len(OrLists),
        g \in 1..Len(FilterGroups) :
       Idle /\ list([NoParams EXCEPT !.filters = FilterOf(a, o, g)], NoContext)

SpecFilters == InitFilters /\ [][NextFilters]_vars

-----------------------------------------------------------------------------
(* Claims about pagination, checked under SpecList *)

ListReturned == call.op = "list" /\ res.ok

\* t is the least integer that is at least a / b
IsCeil(t, a, b) ==
  IF b > 0 THEN t * b >= a /\ (t - 1) * b < a
  ELSE t * b <= a /\ (t - 1) * b > a

\* C1: every result of list has totalPages = ceil(totalItems / perPage),
\* hasNextPage = (page < totalPages) and hasPreviousPage = (page > 1), for
\* the page and perPage echoed in the result.
C1_PaginationMetadata ==
  ListReturned =>
    /\ IsCeil(res.totalPages, res.totalItems, res.perPage)
    /\ res.hasNextPage = (res.page < res.totalPages)
    /\ res.hasPreviousPage = (res.page > 1)

C1_Witness ==
  /\ ListReturned
  /\ res.totalItems = 3 /\ res.perPage = 2 /\ res.page = 1
  /\ res.totalPages = 2 /\ res.hasNextPage /\ ~res.hasPreviousPage

\* C2 as stated: with totalItems = 0 the result has totalPages = 0 and both
\* flags false, whatever the requested page.
C2_EmptyAllFalse ==
  (ListReturned /\ res.totalItems = 0) =>
    res.totalPages = 0 /\ ~res.hasNextPage /\ ~res.hasPreviousPage

\* C2 amended: with totalItems = 0 the result has totalPages = 0, and both
\* flags are false when the effective page is 1 (page absent, 0 or 1);
\* hasPreviousPage stays (page > 1) and hasNextPage is (page < 0).
C2_EmptyResult ==
  (ListReturned /\ res.totalItems = 0) =>
    /\ res.totalPages = 0
    /\ call.params.page \in {Undefined, 0, 1} =>
         ~res.hasNextPage /\ ~res.hasPreviousPage
    /\ call.params.page > 1 => res.hasPreviousPage /\ ~res.hasNextPage
    /\ (call.params.page # Undefined /\ call.params.page < 0) =>
         res.hasNextPage /\ ~res.hasPreviousPage

C2_Witness ==
  /\ ListReturned /\ res.totalItems = 0 /\ before["default"] = NoRows
  /\ call.params.page = 2 /\ res.totalPages = 0 /\ res.hasPreviousPage

OverMax ==
  call.op = "list" /\ call.params.perPage # Undefined
    /\ call.params.perPage > MaxPageSize

\* C3 as stated: a list call with perPage > maxPageSize returns a result
\* whose perPage is maxPageSize, with at most maxPageSize rows.
C3_ClampReturns ==
  OverMax =>
    res.ok /\ res.perPage = MaxPageSize /\ Len(res.rows) <= MaxPageSize

\* C3 amended: a list call with perPage > maxPageSize that schema validation
\* does not see (no list schema, or skipValidation) returns perPage =
\* maxPageSize and at most maxPageSize rows; when the adapter's list schema
\* validates the params the call is rejected with a validation error.
C3_ClampOrReject ==
  OverMax =>
    IF cfg.validation /\ ~call.ctx.skipValidation
    THEN ~res.ok /\ res.err = "validation"
    ELSE res.ok /\ res.perPage = MaxPageSize /\ Len(res.rows) <= MaxPageSize

C3_Witness ==
  /\ OverMax /\ res.ok /\ res.perPage = MaxPageSize
  /\ res.totalItems > MaxPageSize /\ Len(res.rows) = MaxPageSize

\* The rows of page `page`: ids (page-1)*perPage + 1 .. , at most perPage
PageSlice(page, perPage) ==
  (page >= 1 /\ perPage >= 1) =>
    /\ Len(res.rows) =
         Max(0, Min(perPage, res.totalItems - (page - 1) * perPage))
    /\ \A k \in 1..Len(res.rows) : res.rows[k].id = (page - 1) * perPage + k

\* C4 as stated: perPage = min(params.perPage ?? defaultPageSize,
\* maxPageSize), page = params.page ?? 1, offset = (page - 1) * perPage, a
\* supplied 0 being used as given.
C4_NullishDefaults ==
  ListReturned =>
    LET perPage == Min(IF call.params.perPage = Undefined
                       THEN DefaultPageSize ELSE call.params.perPage,
                       MaxPageSize)
        page == IF call.params.page = Undefined THEN 1 ELSE call.params.page
    IN res.perPage = perPage /\ res.page = page /\ PageSlice(page, perPage)

\* C4 amended: perPage = min(params.perPage || defaultPageSize, maxPageSize),
\* page = params.page || 1, offset = (page - 1) * perPage: an absent page or
\* perPage and a supplied 0 are replaced by the default, any other supplied
\* value is used as given.
C4_FalsyDefaults ==
  ListReturned =>
    LET perPage == Min(IF call.params.perPage \in {Undefined, 0}
                       THEN DefaultPageSize ELSE call.params.perPage,
                       MaxPageSize)
        page == IF call.params.page \in {Undefined, 0}
                THEN 1 ELSE call.params.page
    IN res.perPage = perPage /\ res.page = page /\ PageSlice(page, perPage)

C4_Witness ==
  /\ ListReturned /\ call.params.page = 0 /\ call.params.perPage = 0
  /\ res.page = 1 /\ res.perPage = DefaultPageSize
  /\ Len(res.rows) = DefaultPageSize

-----------------------------------------------------------------------------
(* Claims about scope and soft delete, checked under Spec *)

Db == getDb(call.ctx)

\* The caller's scope function returns a restriction for this call
Restricted == cfg.scopeFilters /\ scopeFn(call.ctx.scope, call.ctx.actor) # <<>>

\* row satisfies the caller's restriction, if there is one
InScope(row) == Restricted => row.tenantId = call.ctx.scope

Existed(id) == id \in DOMAIN before[Db]

Untouched(id) == id \in DOMAIN tables[Db] /\ tables[Db][id] = before[Db][id]

ScopedWrites ==
  {"update", "deleteOne", "restore", "permanentDelete", "bulkDelete",
   "bulkRestore"}

\* C5: under a context whose scope function returns a restriction, update,
\* deleteOne, restore, permanentDelete, bulkDelete and bulkRestore never
\* modify or remove a row that fails the restriction, and findOne and list
\* return no such row; create and bulkCreate alone ignore the scope: they
\* insert the rows as given, whatever the caller's scope.
C5_ScopeWriteIsolation ==
  /\ (call.op \in ScopedWrites /\ Restricted) =>
       \A id \in DOMAIN before[Db] : ~InScope(before[Db][id]) => Untouched(id)
  /\ (call.op \in {"findOne", "list"} /\ Restricted) =>
       \A k \in 1..Len(res.rows) : InScope(res.rows[k])
  /\ call.op = "create" =>
       /\ res.ok /\ Len(res.rows) = 1
       /\ res.rows[1].tenantId = call.data.tenantId
       /\ res.rows[1].id \in DOMAIN tables[Db] \ DOMAIN before[Db]
  /\ call.op = "bulkCreate" =>
       /\ res.ok /\ Len(res.rows) = Len(call.items)
       /\ \A k \in 1..Len(res.rows) :
            /\ res.rows[k].tenantId = call.items[k].tenantId
            /\ res.rows[k].id \in DOMAIN tables[Db] \ DOMAIN before[Db]

C5_Witness ==
  /\ call.op = "bulkDelete" /\ Restricted /\ call.ids = <<1, 2>>
  /\ Existed(1) /\ Existed(2)
  /\ InScope(before[Db][1]) /\ ~InScope(before[Db][2])
  /\ ~Untouched(1) /\ Untouched(2)

\* Soft-delete visibility of a row for the params of the call
Visible(row) ==
  ~cfg.softDelete \/ call.params.includeDeleted \/ row.deletedAt = Null

\* The plain-field filter of the call, if any, holds of the row
Filtered(row) ==
  \A k \in 1..Len(call.params.filters.fields) :
    row.val = call.params.filters.fields[k].val

ExpectedIds ==
  {id \in DOMAIN before[Db] :
     LET row == RowOf(before[Db], id)
     IN InScope(row) /\ Visible(row) /\ Filtered(row)}

ReturnedIds == {res.rows[k].id : k \in 1..Len(res.rows)}

\* C6: list returns stored rows that satisfy the caller's restriction, the
\* filters and the soft-delete visibility, and only those; totalItems
\* counts exactly those rows, and on a first page that holds them all the
\* result is exactly those rows; a scope function returning none imposes no
\* restriction.
C6_ListScoped ==
  (call.op = "list" /\ res.ok) =>
    /\ res.totalItems = Cardinality(ExpectedIds)
    /\ ReturnedIds \subseteq ExpectedIds
    /\ \A k \in 1..Len(res.rows) :
         res.rows[k] = RowOf(before[Db], res.rows[k].id)
    /\ (res.page = 1 /\ res.totalItems <= res.perPage) =>
         ReturnedIds = ExpectedIds /\ Len(res.rows) = res.totalItems

C6_Witness ==
  /\ call.op = "list" /\ res.ok /\ Restricted
  /\ Cardinality(DOMAIN before[Db]) = 2
  /\ res.totalItems = 1 /\ Len(res.rows) = 1
  /\ res.rows[1].tenantId = call.ctx.scope

\* C7: update with a non-empty effective payload fails with not-found,
\* returns no row and leaves the store unchanged whenever no stored row has
\* the id or the row with the id is excluded by the caller's scope.
C7_UpdateNotFound ==
  (/\ call.op = "update"
   /\ Keys(beforeUpdate(cfg, call.data)) # {}
   /\ (Existed(call.id) => ~InScope(before[Db][call.id])))
  => /\ ~res.ok /\ res.err = "notfound"
     /\ res.rows = <<>>
     /\ tables = before

\* C8: permanentDelete fails with not-found and leaves the store unchanged
\* whenever no stored row has the id or the row with the id is excluded by
\* the caller's scope; it returns {success: true} only when a row was
\* physically removed.
C8_PermanentDeleteNotFound ==
  call.op = "permanentDelete" =>
    /\ (Existed(call.id) => ~InScope(before[Db][call.id])) =>
         ~res.ok /\ res.err = "notfound" /\ tables = before
    /\ (res.ok /\ res.success) =>
         Existed(call.id) /\ call.id \notin DOMAIN tables[Db]

\* The row of the call's id existed, satisfied the caller's restriction and
\* was marked deleted before the call
WasDeleted(id) ==
  Existed(id) /\ InScope(before[Db][id]) /\ before[Db][id].deletedAt # Null

\* C9: with soft delete configured, deleteOne(id) leaves the row stored with
\* its marker field set to deletedValue; from then on findOne({id}) returns
\* none and list omits the row, while findOne({id}, {includeDeleted: true})
\* and list({includeDeleted: true}) return the row with the marker set.
C9_SoftDeleteVisibility ==
  cfg.softDelete =>
    /\ (call.op = "deleteOne" /\ Existed(call.id)
          /\ InScope(before[Db][call.id])) =>
         /\ call.id \in DOMAIN tables[Db]
         /\ tables[Db][call.id] =
              [before[Db][call.id] EXCEPT
                 !.deletedAt = IF cfg.deletedValue = Undefined
                               THEN clock ELSE cfg.deletedValue]
         /\ tables[Db][call.id].deletedAt # Null
    /\ (call.op = "findOne" /\ call.where = [NoWhere EXCEPT !.id = call.where.id]
          /\ call.where.id # Undefined /\ WasDeleted(call.where.id)) =>
         IF call.params.includeDeleted
         THEN res.rows = <<RowOf(before[Db], call.where.id)>>
         ELSE res.ok /\ res.rows = <<>>
    /\ (call.op = "list" /\ res.ok) =>
         \A id \in DOMAIN before[Db] :
           (before[Db][id].deletedAt # Null /\ InScope(before[Db][id])
              /\ Filtered(RowOf(before[Db], id))) =>
             IF call.params.includeDeleted
             THEN (res.page = 1 /\ res.totalItems <= res.perPage) =>
                    \E k \in 1..Len(res.rows) :
                      res.rows[k] = RowOf(before[Db], id)
             ELSE id \notin ReturnedIds

C9_Witness ==
  /\ cfg.softDelete /\ call.op = "findOne" /\ ~call.params.includeDeleted
  /\ call.where.id = 1 /\ WasDeleted(1)
  /\ res.ok /\ res.rows = <<>>

\* deleteOne(id) with this context has nothing left to mark: the row is
\* absent, outside the caller's scope or already carries deletedValue
AlreadyDeleted(table) ==
  (call.id \in DOMAIN table /\ InScope(table[call.id])) =>
    table[call.id].deletedAt = cfg.deletedValue

\* C10: under soft delete deleteOne returns {success: true} on every call,
\* a row marked deleted stays stored and marked, and with a fixed configured
\* deletedValue a first call leaves nothing for a second to change: the
\* second call of deleteOne on the same id leaves the store as the first
\* left it.
C10_DeleteIdempotent ==
  (cfg.softDelete /\ call.op = "deleteOne") =>
    /\ res.ok /\ res.success
    /\ WasDeleted(call.id) =>
         call.id \in DOMAIN tables[Db] /\ tables[Db][call.id].deletedAt # Null
    /\ cfg.deletedValue # Undefined =>
         /\ AlreadyDeleted(tables[Db])
         /\ AlreadyDeleted(before[Db]) => tables = before

C10_Witness ==
  /\ cfg.softDelete /\ cfg.deletedValue = FixedDeletedValue
  /\ call.op = "deleteOne" /\ WasDeleted(call.id)
  /\ before[Db][call.id].deletedAt = FixedDeletedValue
  /\ res.success /\ tables = before

-----------------------------------------------------------------------------
(* Claims about restore, checked under Spec *)

\* The row of the call's id existed and satisfied the caller's restriction
Matched(id) == Existed(id) /\ InScope(before[Db][id])

\* C11: with soft delete configured, restore(id) returns {success: true}
\* for a matched row and leaves it stored with its marker field equal to
\* notDeletedValue whatever the marker was, every other row and field being
\* kept; a matched row that was not deleted is left unchanged; and findOne({id})
\* returns a matched row whose marker is notDeletedValue, so it returns the
\* row again after deleteOne(id) then restore(id).
C11_RestoreClearsMarker ==
  cfg.softDelete =>
    /\ (call.op = "restore" /\ Matched(call.id)) =>
         /\ res.ok /\ res.success
         /\ DOMAIN tables[Db] = DOMAIN before[Db]
         /\ tables[Db][call.id] = [before[Db][call.id] EXCEPT !.deletedAt = Null]
         /\ \A id \in DOMAIN before[Db] : id # call.id => Untouched(id)
         /\ before[Db][call.id].deletedAt = Null => tables = before
    /\ (call.op = "findOne" /\ call.where = [NoWhere EXCEPT !.id = call.where.id]
          /\ call.where.id # Undefined /\ Matched(call.where.id)
          /\ before[Db][call.where.id].deletedAt = Null) =>
         res.ok /\ res.rows = <<RowOf(before[Db], call.where.id)>>

C11_Witness ==
  /\ cfg.softDelete /\ call.op = "restore" /\ WasDeleted(call.id)
  /\ res.success /\ tables[Db][call.id].deletedAt = Null
  /\ tables # before

\* C12: on an entity with no soft-delete configuration restore and
\* bulkRestore fail with the configuration error, having sent no statement to
\* the database; they report no success and the store is as it was.
C12_RestoreNeedsSoftDelete ==
  (~cfg.softDelete /\ call.op \in {"restore", "bulkRestore"}) =>
    /\ ~res.ok /\ res.err = "config" /\ ~res.success
    /\ res.requests = <<>>
    /\ tables = before

C12_Witness ==
  /\ ~cfg.softDelete /\ call.op = "bulkRestore" /\ call.ids = <<1, 2>>
  /\ Existed(1) /\ Existed(2)
  /\ ~res.ok /\ res.err = "config" /\ res.requests = <<>>

-----------------------------------------------------------------------------
(* Claims about usage errors and empty inputs, checked under Spec *)

\* C13: findOne called with a conditions object in which no field has a
\* value fails with the usage error, returns no row, has sent no statement
\* to the database and leaves the store as it was; with at least one field
\* given it sends exactly one select and returns at most one row.
C13_FindOneNeedsCondition ==
  call.op = "findOne" =>
    IF call.where = NoWhere
    THEN /\ ~res.ok /\ res.err = "usage"
         /\ res.rows = <<>> /\ res.requests = <<>>
         /\ tables = before
    ELSE /\ res.ok /\ res.requests = <<"select">>
         /\ Len(res.rows) <= 1

C13_Witness ==
  /\ call.op = "findOne" /\ call.where = NoWhere
  /\ Cardinality(DOMAIN before[Db]) = 2
  /\ ~res.ok /\ res.err = "usage" /\ res.requests = <<>>

-----------------------------------------------------------------------------
(* Claims about the validation stage and hooks, checked under SpecPipeline *)

\* C14: bulkCreate([]) returns {success: true, count: 0, items: []} whatever
\* the configuration and context: it invokes neither the validate hook nor
\* schema validation nor beforeCreate, sends no statement to the database and
\* leaves the store as it was.
C14_BulkCreateEmpty ==
  (call.op = "bulkCreate" /\ call.items = <<>>) =>
    /\ res.ok /\ res.success /\ res.count = 0 /\ res.rows = <<>>
    /\ res.stages = <<>> /\ res.hookInput = <<>>
    /\ res.requests = <<>> /\ res.values = <<>>
    /\ tables = before

C14_Witness ==
  /\ call.op = "bulkCreate" /\ call.items = <<>>
  /\ cfg.validateHook /\ cfg.validation /\ cfg.beforeCreate
  /\ ~call.ctx.skipValidation /\ call.ctx.actor = "user"
  /\ res.success /\ res.count = 0 /\ res.stages = <<>>

-----------------------------------------------------------------------------
(* Claims about empty bulk input, checked under Spec *)

\* C15: bulkDelete([]) returns {success: true, count: 0} without sending any
\* statement, read or write, to the database.
C15_BulkDeleteEmpty ==
  (call.op = "bulkDelete" /\ call.ids = <<>>) =>
    /\ res.ok /\ res.success /\ res.count = 0
    /\ res.requests = <<>>
    /\ tables = before

-----------------------------------------------------------------------------
(* Claims about the filter compiler, checked under SpecFilters *)

RecognizedOperators ==
  {"equals", "not", "gt", "gte", "lt", "lte", "in", "notIn", "like", "ilike"}

\* The allow-list lets the key through: a list that is empty restricts nothing
Allowed(key) ==
  Len(cfg.allowedFilters) = 0 \/ InSeq(key, cfg.allowedFilters)

\* The operator's value is undefined
OpUndefined(key, o) ==
  IF o.isArray THEN Sentinel(key) \in o.val ELSE o.val = Sentinel(key)

\* x LIKE pattern as the database of the configured dialect decides it
SqlLike(x, pattern) ==
  IF cfg.dialect = "sqlite" THEN LikeMatch(Lower(x), Lower(pattern))
  ELSE LikeMatch(x, pattern)

\* The row satisfies one operator of an operator map on column key; a
\* comparison with an undefined value is true of no row
OpSat(key, o, row) ==
  LET x == row[key]
  IN IF o.op \notin RecognizedOperators THEN TRUE
     ELSE IF OpUndefined(key, o) THEN FALSE
     ELSE CASE o.op = "equals" -> x = o.val
            [] o.op = "not" -> x # o.val
            [] o.op = "gt" -> x > o.val
            [] o.op = "gte" -> x >= o.val
            [] o.op = "lt" -> x < o.val
            [] o.op = "lte" -> x <= o.val
            [] o.op = "in" -> IF o.isArray THEN x \in o.val ELSE x = o.val
            [] o.op = "notIn" -> IF o.isArray THEN x \notin o.val ELSE x # o.val
            [] o.op = "like" -> SqlLike(x, o.val)
            [] OTHER -> LikeMatch(Lower(x), Lower(o.val))

\* The row satisfies the condition of one field of a filter object
EntrySat(e, row) ==
  IF e.kind = "undefined" \/ ~Allowed(e.key) THEN TRUE
  ELSE IF e.kind = "value" THEN row[e.key] = e.val
  ELSE \A i \in 1..Len(e.ops) : OpSat(e.key, e.ops[i], row)

\* The row satisfies every field of a filter object
GroupSat(g, row) == \A i \in 1..Len(g) : EntrySat(g[i], row)

\* The field states a condition: it has a value, is allowed, and an operator
\* map has a recognized operator
EntryStates(e) ==
  /\ e.kind # "undefined" /\ Allowed(e.key)
  /\ e.kind = "ops" => \E i \in 1..Len(e.ops) : e.ops[i].op \in RecognizedOperators

GroupStates(g) == \E i \in 1..Len(g) : EntryStates(g[i])

Filters == call.params.filters

FilterListReturned == call.op = "list" /\ res.ok /\ res.page = 1

\* The result of the call is the ids in S: counted in totalItems, and
\* returned, in id order, up to perPage of them
ResultIs(S) ==
  /\ res.totalItems = Cardinality(S)
  /\ res.rows = LimitOffset([k \in 1..Cardinality(S) |->
                               RowOf(before[Db], SortedIds(S)[k])],
                            res.perPage, 0)

\* C16 as stated: the rows selected are exactly the rows satisfying every
\* AND entry, at least one OR entry (when an OR list is given) and every
\* extra field condition.
C16_AndOrFields ==
  FilterListReturned =>
    ResultIs({id \in DOMAIN before[Db] :
       LET row == RowOf(before[Db], id)
       IN /\ \A i \in 1..Len(Filters.AND) : GroupSat(Filters.AND[i], row)
          /\ Filters.hasOR =>
               \E i \in 1..Len(Filters.OR) : GroupSat(Filters.OR[i], row)
          /\ GroupSat(Filters.fields, row)})

\* C16 amended: the rows selected are exactly the rows satisfying every AND
\* entry, at least one of the OR entries that state a condition (an OR
\* entry that states none is left out, and an OR list in which no entry
\* states a condition restricts nothing) and every extra field condition.
C16_AndOrFieldsStated ==
  FilterListReturned =>
    ResultIs({id \in DOMAIN before[Db] :
       LET row == RowOf(before[Db], id)
           stating == {i \in 1..Len(Filters.OR) : GroupStates(Filters.OR[i])}
       IN /\ \A i \in 1..Len(Filters.AND) : GroupSat(Filters.AND[i], row)
          /\ stating # {} => \E i \in stating : GroupSat(Filters.OR[i], row)
          /\ GroupSat(Filters.fields, row)})

C16_Witness ==
  /\ FilterListReturned
  /\ Filters.hasAND /\ Len(Filters.AND) = 2
  /\ Filters.hasOR /\ Len(Filters.OR) = 2
  /\ Len(Filters.fields) = 1 /\ Filters.fields[1].kind = "value"
  /\ Cardinality(DOMAIN before[Db]) = 2
  /\ res.totalItems = 1 /\ res.rows[1].id = 2 /\ res.rows[1].val = <<"a">>

\* The filter expression F with only the fields that pass Keep, in its AND
\* and OR entries and among its plain fields
KeepEntries(F, Keep(_)) ==
  [hasAND |-> F.hasAND,
   AND |-> [i \in 1..Len(F.AND) |-> SelectSeq(F.AND[i], Keep)],
   hasOR |-> F.hasOR,
   OR |-> [i \in 1..Len(F.OR) |-> SelectSeq(F.OR[i], Keep)],
   fields |-> SelectSeq(F.fields, Keep)]

\* The predicates list puts in the WHERE clause for the filter expression F
\* and the other params and context of the call
ListConditions(F) ==
  applySoftDeleteFilter(cfg,
    applyScopeFilters(cfg,
      applySearch(cfg, parseFilters(F, cfg.allowedFilters),
                  call.params.search),
      call.ctx),
    call.params.includeDeleted)

\* The outcome of the call is the outcome of list for the filter
\* expression F: the same first page and count, failing only as F fails
SameAsFor(F) ==
  LET conditions == ListConditions(F)
      rows == SelectWhere(before[Db], conditions)
  IN IF StoreRejects(conditions) THEN ~res.ok /\ res.err = "store"
     ELSE /\ BindOutcomes(conditions) = {"null"} => res.ok
          /\ (res.ok /\ res.page = 1) =>
               /\ res.totalItems = Len(rows)
               /\ res.rows = LimitOffset(rows, res.perPage, 0)

InAllowList(e) == InSeq(e.key, cfg.allowedFilters)

\* C17 as stated: a filter on a field that is not in the configured
\* allow-list contributes no predicate, for every allowedFilters including
\* the default empty one: the outcome of list is that of the expression
\* without the fields that are not in the list.
C17_AllowListAlways ==
  call.op = "list" => SameAsFor(KeepEntries(Filters, InAllowList))

\* C17 amended: when a non-empty allow-list is configured, a filter on a
\* field that is not in it contributes no predicate and the outcome of list
\* is that of the expression without such fields; with the default (empty)
\* allow-list no field is dropped: every returned row satisfies the
\* condition of every plain field of the expression.
C17_AllowListWhenGiven ==
  call.op = "list" =>
    IF Len(cfg.allowedFilters) > 0
    THEN SameAsFor(KeepEntries(Filters, InAllowList))
    ELSE res.ok =>
           \A k \in 1..Len(res.rows) :
             \A i \in 1..Len(Filters.fields) :
               LET e == Filters.fields[i]
               IN IF e.kind = "value" THEN res.rows[k][e.key] = e.val
                  ELSE IF e.kind = "ops"
                  THEN \A j \in 1..Len(e.ops) : OpSat(e.key, e.ops[j], res.rows[k])
                  ELSE TRUE

C17_Witness ==
  /\ call.op = "list" /\ res.ok
  /\ cfg.allowedFilters = <<"val", "id">>
  /\ ~Filters.hasAND /\ ~Filters.hasOR
  /\ Len(Filters.fields) = 1 /\ Filters.fields[1].key = "tenantId"
  /\ Cardinality(DOMAIN before[Db]) = 2
  /\ res.totalItems = 2 /\ res.rows[2].tenantId = "B"

\* The number of comparisons in a sequence of predicates
RECURSIVE LeafCount(_)
LeafCount(conditions) ==
  IF Len(conditions) = 0 THEN 0
  ELSE (IF Head(conditions).op \in {"and", "or"}
        THEN LeafCount(Head(conditions).val) ELSE 1)
       + LeafCount(Tail(conditions))

\* The number of conditions a filter object states: one per allowed field
\* with a value, one per recognized operator key of an allowed operator map
RECURSIVE StatedCount(_)
StatedCount(g) ==
  IF Len(g) = 0 THEN 0
  ELSE LET e == Head(g)
       IN (IF e.kind = "undefined" \/ ~Allowed(e.key) THEN 0
           ELSE IF e.kind = "value" THEN 1
           ELSE Cardinality({i \in 1..Len(e.ops) :
                               e.ops[i].op \in RecognizedOperators}))
          + StatedCount(Tail(g))

RECURSIVE StatedCountAll(_)
StatedCountAll(groups) ==
  IF Len(groups) = 0 THEN 0
  ELSE StatedCount(Head(groups)) + StatedCountAll(Tail(groups))

\* The field is not an operator map made of unrecognized keys only
HasRecognized(e) ==
  e.kind = "ops" =>
    \E i \in 1..Len(e.ops) : e.ops[i].op \in RecognizedOperators

DefinedOps(e) ==
  IF e.kind = "ops"
  THEN [e EXCEPT !.ops = SelectSeq(@, LAMBDA o : ~OpUndefined(e.key, o))]
  ELSE e

\* The filter object g without its undefined values: fields whose value is
\* undefined are left out, operator maps lose their undefined operators
DefinedGroup(g) ==
  LET defined == SelectSeq(g, LAMBDA e : e.kind # "undefined")
  IN [i \in 1..Len(defined) |-> DefinedOps(defined[i])]

WithoutUndefined(F) ==
  [hasAND |-> F.hasAND,
   AND |-> [i \in 1..Len(F.AND) |-> DefinedGroup(F.AND[i])],
   hasOR |-> F.hasOR,
   OR |-> [i \in 1..Len(F.OR) |-> DefinedGroup(F.OR[i])],
   fields |-> DefinedGroup(F.fields)]

\* C19: an undefined value is never compiled into a predicate, as the value
\* of a field or as the value of an operator inside an operator map: the
\* outcome of list is that of the expression without its undefined values,
\* the remaining conditions applying.
C19_UndefinedIgnored ==
  call.op = "list" => SameAsFor(WithoutUndefined(Filters))

\* The validation stage of the call skips everything
Skips == call.ctx.skipValidation

\* The validate hook is invoked, and it asks for schema validation unless
\* the actor is an admin
HookRuns == ~Skips /\ cfg.validateHook

SchemaRuns ==
  ~Skips /\ cfg.validation /\ (cfg.validateHook => call.ctx.actor # "admin")

\* What the validation stage hands on: the schema's output when the schema
\* ran (the insert schema strips the keys that are no column), else the input
HandedOn ==
  IF SchemaRuns /\ call.op = "create"
  THEN [call.data EXCEPT !.extra = "?"]
  ELSE call.data

\* The insert schema rejects a payload without tenantId or val
SchemaRejects ==
  /\ SchemaRuns /\ call.op = "create"
  /\ (call.data.val = Absent \/ call.data.tenantId = "?")

\* C20: in create and update, with context.skipValidation neither the
\* validate hook nor schema validation runs and the input is handed on
\* unchanged; otherwise the validate hook runs first, schema validation runs
\* after it unless the hook returned false, and a schema failure ends the
\* call before any hook or statement; what the validation stage hands on
\* (the schema's output when it ran) is what beforeCreate / beforeUpdate
\* receives, and the statement receives the hook's result, or what was
\* handed on when there is no hook.
C20_ValidationOrder ==
  call.op \in {"create", "update"} =>
    LET validationStages ==
          (IF HookRuns THEN <<"validate">> ELSE <<>>)
            \o (IF SchemaRuns THEN <<"schema">> ELSE <<>>)
        hasHook == IF call.op = "create" THEN cfg.beforeCreate
                   ELSE cfg.beforeUpdate
        hookStage == IF call.op = "create" THEN "beforeCreate"
                     ELSE "beforeUpdate"
        hookResult ==
          IF ~hasHook THEN HandedOn
          ELSE IF call.op = "update" THEN [HandedOn EXCEPT !.val = Absent]
          ELSE IF HandedOn.val = Absent THEN HandedOn
          ELSE [HandedOn EXCEPT !.val = <<"h">> \o @]
    IN IF SchemaRejects
       THEN /\ ~res.ok /\ res.err = "validation"
            /\ res.stages = validationStages
            /\ res.hookInput = <<>> /\ res.requests = <<>>
            /\ tables = before
       ELSE /\ res.err # "validation"
            /\ res.stages =
                 validationStages
                   \o (IF hasHook THEN <<hookStage>> ELSE <<>>)
            /\ res.hookInput = (IF hasHook THEN <<HandedOn>> ELSE <<>>)
            /\ call.op = "create" => res.values = <<hookResult>>
            /\ call.op = "update" =>
                 res.values = (IF Keys(hookResult) = {} THEN <<>>
                               ELSE <<hookResult>>)
            /\ (call.op = "create" /\ res.ok) =>
                 /\ res.rows[1].val = hookResult.val
                 /\ tables[Db][res.rows[1].id].val = hookResult.val

C20_Witness ==
  /\ call.op = "create" /\ res.ok
  /\ cfg.validateHook /\ cfg.validation /\ cfg.beforeCreate
  /\ ~Skips /\ call.ctx.actor = "user" /\ call.data.extra = "x"
  /\ res.stages = <<"validate", "schema", "beforeCreate">>
  /\ res.hookInput[1].extra = "?"
  /\ res.rows[1].val = <<"h", "a">>

-----------------------------------------------------------------------------
(* Errors thrown by the validation stage and the hooks: create, bulkCreate *)
(* and update with hooks of which one throws on a payload of tenant B, and *)
(* a schema that rejects an incomplete payload                             *)

ErrorConfigs ==
  {[BaseConfig EXCEPT !.validation = v, !.validateHook = h,
                      !.beforeCreate = h, !.beforeUpdate = h, !.throws = t] :
     v \in BOOLEAN, h \in BOOLEAN,
     t \in {"none", "validate", "beforeCreate", "beforeUpdate"}}
  \ {[BaseConfig EXCEPT !.validation = v, !.throws = t] :
       v \in BOOLEAN, t \in {"validate", "beforeCreate", "beforeUpdate"}}

\* A complete payload, one of tenant B, one without val
ErrorData ==
  {[NoData EXCEPT !.tenantId = "A", !.val = <<"a">>],
   [NoData EXCEPT !.tenantId = "B", !.val = <<"a">>],
   [NoData EXCEPT !.tenantId = "A"]}

ErrorItems ==
  {<<d>> : d \in ErrorData}
    \cup {<<d1, d2>> : d1 \in ErrorData, d2 \in ErrorData}

ErrorUpdates ==
  {NoData, [NoData EXCEPT !.tenantId = "A"], [NoData EXCEPT !.tenantId = "B"],
   [NoData EXCEPT !.tenantId = "B", !.val = <<"b", "a">>]}

InitErrors == InitWith(ErrorConfigs)

NextErrors ==
  \/ Return
  \/ \E data \in ErrorData, context \in PipelineContexts :
       Idle /\ seq["default"] < MaxId /\ create(data, context)
  \/ \E items \in ErrorItems, context \in PipelineContexts :
       /\ Idle
       /\ seq["default"] + Len(items) <= MaxId
       /\ bulkCreate(items, context)
  \/ \E id \in Ids, updates \in ErrorUpdates, context \in PipelineContexts :
       Idle /\ update(id, updates, context)

SpecErrors == InitErrors /\ [][NextErrors]_vars

-----------------------------------------------------------------------------
(* Claims about errors of the pipeline, checked under SpecErrors *)

\* The error the stages of the call throw for the payload d: the validate
\* hook's, else the schema's, else that of beforeCreate / beforeUpdate; ""
\* when none of them throws
Thrown(d) ==
  LET before_ == IF call.op = "update" THEN "beforeUpdate" ELSE "beforeCreate"
      hasBefore == IF call.op = "update" THEN cfg.beforeUpdate
                   ELSE cfg.beforeCreate
  IN IF HookRuns /\ cfg.throws = "validate" /\ d.tenantId = "B"
     THEN "validate"
     ELSE IF SchemaRuns /\ call.op # "update"
             /\ (d.val = Absent \/ d.tenantId = "?")
     THEN "validation"
     ELSE IF hasBefore /\ cfg.throws = before_ /\ d.tenantId = "B"
     THEN before_
     ELSE ""

\* The payloads of the call: the data of create and update, the items of
\* bulkCreate
Payloads ==
  IF call.op = "bulkCreate"
  THEN {call.items[k] : k \in 1..Len(call.items)}
  ELSE {call.data}

\* C21: when schema validation, the validate hook, beforeCreate or
\* beforeUpdate throws in create, update or bulkCreate (for any one item of
\* the batch), the call fails with that error (for a batch, the error of one
\* of its rejected items), no insert or update is sent and the store is as
\* it was: no item of a partly invalid batch is inserted.
C21_ErrorsAbortBeforeWrite ==
  call.op \in {"create", "update", "bulkCreate"} =>
    LET errors == {Thrown(d) : d \in Payloads} \ {""}
    IN errors # {} =>
         /\ ~res.ok /\ res.err \in errors
         /\ res.requests = <<>> /\ res.values = <<>>
         /\ tables = before

C21_Witness ==
  /\ call.op = "bulkCreate" /\ Len(call.items) = 2
  /\ Thrown(call.items[1]) = "" /\ Thrown(call.items[2]) = "beforeCreate"
  /\ ~res.ok /\ res.err = "beforeCreate" /\ res.requests = <<>>
  /\ tables = before /\ DOMAIN tables[Db] = {}

-----------------------------------------------------------------------------
(* update with and without a beforeUpdate hook, on rows inside and outside *)
(* the caller's scope, soft-deleted or not                                 *)

UpdateConfigs ==
  {[BaseConfig EXCEPT !.softDelete = sd, !.scopeFilters = sc,
                      !.beforeUpdate = bu] :
     sd \in BOOLEAN, sc \in BOOLEAN, bu \in BOOLEAN}

InitUpdate == InitWith(UpdateConfigs)

NextUpdate ==
  \/ Return
  \/ \E data \in DataInputs :
       Idle /\ seq["default"] < MaxId /\ create(data, NoContext)
  \/ \E id \in Ids : Idle /\ deleteOne(id, NoContext)
  \/ \E id \in Ids, updates \in UpdateInputs, context \in Contexts :
       Idle /\ update(id, updates, context)

SpecUpdate == InitUpdate /\ [][NextUpdate]_vars

-----------------------------------------------------------------------------
(* Claims about update's payload, checked under SpecUpdate *)

\* The payload update is left with after the hook: the configured
\* beforeUpdate returns the updates without val
EffectivePayload ==
  IF cfg.beforeUpdate THEN [call.data EXCEPT !.val = Absent] ELSE call.data

\* The row the write of update applies to: the id's row, inside the caller's
\* scope and not marked deleted
Writable(id) ==
  /\ Existed(id) /\ InScope(before[Db][id])
  /\ cfg.softDelete => before[Db][id].deletedAt = Null

\* C22: what beforeUpdate returns replaces the validated payload entirely:
\* the update statement is handed the hook's output and writes its fields
\* only, a field the hook left out keeping its stored value; and when the
\* payload after the hook is empty, update sends no write, leaves the store
\* as it was and returns the row with the id as a read by id alone finds
\* it, whatever the caller's scope and the row's soft-delete marker.
C22_HookReplacesPayload ==
  call.op = "update" =>
    IF EffectivePayload = NoData
    THEN /\ res.ok /\ res.requests = <<"select">> /\ res.values = <<>>
         /\ tables = before
         /\ res.rows = (IF Existed(call.id)
                        THEN <<RowOf(before[Db], call.id)>> ELSE <<>>)
    ELSE /\ res.values = <<EffectivePayload>>
         /\ res.requests = <<"update", "select">>
         /\ \A id \in DOMAIN before[Db] :
              IF id = call.id /\ Writable(id)
              THEN tables[Db][id] =
                     [before[Db][id] EXCEPT
                        !.tenantId = IF EffectivePayload.tenantId # "?"
                                     THEN EffectivePayload.tenantId ELSE @,
                        !.val = IF EffectivePayload.val # Absent
                                THEN EffectivePayload.val ELSE @]
              ELSE Untouched(id)

C22_Witness ==
  /\ call.op = "update" /\ cfg.beforeUpdate /\ cfg.softDelete
  /\ Restricted /\ call.data.val = <<"b", "a">> /\ call.data.tenantId = "?"
  /\ Existed(call.id) /\ ~InScope(before[Db][call.id])
  /\ before[Db][call.id].deletedAt # Null
  /\ res.ok /\ res.requests = <<"select">> /\ tables = before
  /\ res.rows = <<RowOf(before[Db], call.id)>>

-----------------------------------------------------------------------------
(* Two databases: every operation called without and with context.db, the  *)
(* operations having been built with the database "default"                *)

StoreConfigs == {[BaseConfig EXCEPT !.softDelete = sd] : sd \in BOOLEAN}

StoreContexts == {NoContext, [NoContext EXCEPT !.db = "override"]}

StoreData == [NoData EXCEPT !.tenantId = "A", !.val = <<"a">>]

StoreUpdates == {NoData, [NoData EXCEPT !.val = <<"a">>]}

InitStore == InitWith(StoreConfigs)

NextStore ==
  \/ Return
  \/ \E context \in StoreContexts :
       Idle /\ seq[getDb(context)] < MaxId /\ create(StoreData, context)
  \/ \E context \in StoreContexts, items \in {<<>>, <<StoreData>>} :
       /\ Idle
       /\ seq[getDb(context)] + Len(items) <= MaxId
       /\ bulkCreate(items, context)
  \/ \E id \in Ids, context \in StoreContexts :
       Idle /\ findOne([NoWhere EXCEPT !.id = id], NoParams, context)
  \/ \E context \in StoreContexts : Idle /\ list(NoParams, context)
  \/ \E id \in Ids, updates \in StoreUpdates, context \in StoreContexts :
       Idle /\ update(id, updates, context)
  \/ \E id \in Ids, context \in StoreContexts : Idle /\ deleteOne(id, context)
  \/ \E id \in Ids, context \in StoreContexts : Idle /\ restore(id, context)
  \/ \E id \in Ids, context \in StoreContexts :
       Idle /\ permanentDelete(id, context)
  \/ \E ids \in IdLists, context \in StoreContexts :
       Idle /\ bulkDelete(ids, context)
  \/ \E ids \in IdLists, context \in StoreContexts :
       Idle /\ bulkRestore(ids, context)

SpecStore == InitStore /\ [][NextStore]_vars

-----------------------------------------------------------------------------
(* Claims about context resolution, checked under SpecStore *)

\* C23: every statement of every operation, on every path through it (the
\* read of update with an empty payload included), is sent to context.db
\* when the caller gives one and to the default database otherwise; a call
\* with context.db neither reads nor writes the default database.
C23_StoreResolution ==
  ~Idle =>
    /\ \A i \in 1..Len(res.handles) :
         res.handles[i] = (IF call.ctx.db = "none" THEN "default"
                           ELSE call.ctx.db)
    /\ call.ctx.db = "override" => tables["default"] = before["default"]

-----------------------------------------------------------------------------
(* create followed by findOne of the created id: the caller of create      *)
(* takes the id of the record it received and reads it back, with and      *)
(* without soft delete, scope filters and a beforeCreate hook              *)

RoundTripConfigs ==
  {[BaseConfig EXCEPT !.softDelete = sd, !.scopeFilters = sc,
                      !.beforeCreate = bc] :
     sd \in BOOLEAN, sc \in BOOLEAN, bc \in BOOLEAN}

InitRoundTrip == InitWith(RoundTripConfigs)

\* create has returned the record res.rows[1] to its caller
Created == call.op = "create" /\ res.ok

NextRoundTrip ==
  \/ Return
  \/ \E data \in DataInputs, context \in Contexts :
       Idle /\ seq["default"] < MaxId /\ create(data, context)
  \/ \E context \in Contexts :
       /\ Created
       /\ findOne([NoWhere EXCEPT !.id = res.rows[1].id], NoParams, context)

SpecRoundTrip == InitRoundTrip /\ [][NextRoundTrip]_vars

-----------------------------------------------------------------------------
(* Claims about the round trip, checked under SpecRoundTrip *)

\* The step is the findOne({id: r.id}) of the record r create just returned
ReadsBack == Created /\ call'.op = "findOne"

-----------------------------------------------------------------------------
(* Claims about soft and physical deletion, checked under Spec *)

\* The ids the call names
NamedIds ==
  IF call.op \in {"bulkDelete", "bulkRestore"} THEN IdSet(call.ids)
  ELSE {call.id}

\* The stored rows the call names that satisfy the caller's restriction
MatchingIds == {id \in NamedIds : Matched(id)}

\* The marker deleteOne and bulkDelete set: the configured deletedValue, or
\* the time of the call
DeletedValue ==
  IF cfg.deletedValue = Undefined THEN clock ELSE cfg.deletedValue

\* deleteOne and bulkDelete with soft delete configured remove no row and
\* set the marker of the matching rows to deletedValue; without it they
\* remove the matching rows; every other row is kept as it was
DeletesAsConfigured ==
  call.op \in {"deleteOne", "bulkDelete"} =>
    IF cfg.softDelete
    THEN /\ DOMAIN tables[Db] = DOMAIN before[Db]
         /\ \A id \in DOMAIN before[Db] :
              IF id \in MatchingIds
              THEN tables[Db][id] =
                     [before[Db][id] EXCEPT !.deletedAt = DeletedValue]
              ELSE Untouched(id)
    ELSE /\ DOMAIN tables[Db] = DOMAIN before[Db] \ MatchingIds
         /\ \A id \in DOMAIN tables[Db] : Untouched(id)

\* C25: with soft delete configured, deleteOne and bulkDelete never remove a
\* row (they set the marker field of the matching rows to deletedValue);
\* without it they remove the matching rows; a permanentDelete that reports
\* success has removed the row whatever the soft-delete configuration, so
\* that findOne({id}, {includeDeleted: true}) then returns none.
C25_SoftOrPhysicalDelete ==
  /\ DeletesAsConfigured
  /\ (call.op = "permanentDelete" /\ res.ok) =>
       /\ call.id \notin DOMAIN tables[Db]
       /\ \A id \in DOMAIN before[Db] : id # call.id => Untouched(id)
  /\ (call.op = "findOne" /\ call.where.id # Undefined
        /\ ~Existed(call.where.id)) =>
       res.ok /\ res.rows = <<>>


-----------------------------------------------------------------------------
(* update as the two statements it sends, with the statements of other     *)
(* callers in between: the core opens no transaction around them           *)

MaxOthers == 1

RaceConfigs ==
  {[BaseConfig EXCEPT !.softDelete = sd, !.scopeFilters = sc] :
     sd \in BOOLEAN, sc \in BOOLEAN}

OtherUpdates ==
  {[NoData EXCEPT !.val = <<"a">>], [NoData EXCEPT !.tenantId = "A"]}

\* update has sent its write and not yet its re-select
Writing == call.op = "update" /\ res.requests = <<"update">>

\* update up to its write: validation, hook and the empty-payload return as
\* in update; otherwise the UPDATE statement alone
updateWrite(id, updates, context) ==
  LET c == [NoCall EXCEPT !.op = "update", !.id = id, !.data = updates,
                          !.ctx = context]
      validated == validate(cfg, "update", updates, "update", context)
      transformed == beforeUpdate(cfg, validated.data)
      dbInstance == getDb(context)
      conditions ==
        applySoftDeleteFilter(cfg,
          applyScopeFilters(cfg, <<Eq("id", id)>>, context),
          FALSE)
      stages == validated.ran
                  \o (IF cfg.beforeUpdate THEN <<"beforeUpdate">> ELSE <<>>)
      hookInput == IF cfg.beforeUpdate THEN <<validated.data>> ELSE <<>>
  IN IF \/ ~validated.ok
        \/ cfg.beforeUpdate /\ Throws(cfg, "beforeUpdate", validated.data)
        \/ Keys(transformed) = {}
     THEN update(id, updates, context)
     ELSE /\ tables' = [tables EXCEPT ![dbInstance] =
                          UpdateWhere(@, conditions, transformed)]
          /\ UNCHANGED seq
          /\ Record(c, Sent(dbInstance,
                            [NoResult EXCEPT
                               !.hookInput = hookInput,
                               !.values = <<transformed>>],
                            <<"update">>, stages))

\* update from its re-select on: the row with the id as stored now, or the
\* not-found error
updateReselect ==
  LET dbInstance == getDb(call.ctx)
      result == FirstRow(SelectWhere(tables[dbInstance], <<Eq("id", call.id)>>))
  IN /\ Writing
     /\ res' = [res EXCEPT
                  !.ok = Len(result) > 0,
                  !.err = IF Len(result) = 0 THEN "notfound" ELSE "",
                  !.rows = result,
                  !.requests = <<"update", "select">>,
                  !.handles = <<dbInstance, dbInstance>>]
     /\ UNCHANGED <<tables, seq, clock, cfg, call, before>>

\* Another caller's statements reach the database while update is between
\* its own two
Interleaved(op, data) ==
  /\ Len(res.others) < MaxOthers
  /\ res' = [res EXCEPT !.others = Append(@, [op |-> op, data |-> data])]
  /\ UNCHANGED <<seq, clock, cfg, call, before>>

\* The write of another caller's update of the same id, called without a
\* scope
otherUpdate(updates) ==
  LET dbInstance == getDb(call.ctx)
      conditions ==
        applySoftDeleteFilter(cfg,
          applyScopeFilters(cfg, <<Eq("id", call.id)>>, NoContext),
          FALSE)
  IN /\ Writing
     /\ tables' = [tables EXCEPT ![dbInstance] =
                     UpdateWhere(@, conditions, updates)]
     /\ Interleaved("update", updates)

\* Another caller's permanentDelete of the same id, called without a scope
otherPermanentDelete ==
  LET dbInstance == getDb(call.ctx)
      existing == FirstRow(SelectWhere(tables[dbInstance],
                                       <<Eq("id", call.id)>>))
      conditions == applyScopeFilters(cfg, <<Eq("id", call.id)>>, NoContext)
  IN /\ Writing
     /\ Len(existing) > 0
     /\ tables' = [tables EXCEPT ![dbInstance] = DeleteWhere(@, conditions)]
     /\ Interleaved("permanentDelete", NoData)

NextRace ==
  \/ ~Writing /\ Return
  \/ \E data \in DataInputs :
       Idle /\ seq["default"] < MaxId /\ create(data, NoContext)
  \/ \E id \in Ids : Idle /\ deleteOne(id, NoContext)
  \/ \E id \in Ids, updates \in UpdateInputs, context \in Contexts :
       Idle /\ updateWrite(id, updates, context)
  \/ \E updates \in OtherUpdates : otherUpdate(updates)
  \/ otherPermanentDelete
  \/ updateReselect

SpecRace == InitWith(RaceConfigs) /\ [][NextRace]_vars

-----------------------------------------------------------------------------
(* Claims about update's read after write, checked under SpecRace *)

\* update has sent both its statements
Reselected == call.op = "update" /\ res.requests = <<"update", "select">>

\* The row carries every field the payload gives
Carries(rows, data) ==
  /\ Len(rows) = 1
  /\ data.tenantId # "?" => rows[1].tenantId = data.tenantId
  /\ data.val # Absent => rows[1].val = data.val

OtherDeleted ==
  \E i \in 1..Len(res.others) : res.others[i].op = "permanentDelete"

\* C26: update is not atomic across its write and its re-select.  When its
\* write applied to the row and no other caller's statement came between
\* the write and the re-select, update returns the row carrying every field
\* of the payload it wrote.  When another caller's permanentDelete of the
\* id came between them, update fails with not-found although its own write
\* was applied; when another caller's update of the id came between them
\* (and no delete), update returns the row carrying the other caller's
\* fields, which can differ from the payload it wrote itself.
C26_ReadAfterWrite ==
  (Reselected /\ Writable(call.id)) =>
    /\ res.others = <<>> => res.ok /\ Carries(res.rows, res.values[1])
    /\ OtherDeleted =>
         /\ ~res.ok /\ res.err = "notfound"
         /\ call.id \notin DOMAIN tables[Db]
    /\ (res.others # <<>> /\ ~OtherDeleted) =>
         res.ok /\ Carries(res.rows, res.others[Len(res.others)].data)

C26_Witness ==
  /\ Reselected /\ Writable(call.id)
  /\ Len(res.others) = 1 /\ res.others[1].op = "update"
  /\ res.ok /\ ~Carries(res.rows, res.values[1])

\* The other outcome of the race: not-found after an applied write
C26_WitnessNotFound ==
  /\ Reselected /\ Writable(call.id)
  /\ Len(res.others) = 1 /\ res.others[1].op = "permanentDelete"
  /\ ~res.ok /\ res.err = "notfound"


-----------------------------------------------------------------------------
(* list over rows that differ in tenant, value and soft-delete marker, with *)
(* filters, search, ordering and page windows; no validation adapter, so    *)
(* page and perPage reach the query as given                               *)

CountConfigs ==
  {[BaseConfig EXCEPT !.softDelete = sd, !.scopeFilters = sc] :
     sd \in BOOLEAN, sc \in BOOLEAN}

CountData ==
  {[NoData EXCEPT !.tenantId = t, !.val = v] :
     t \in Tenants, v \in {<<"a">>, <<"b", "a">>}}

TenantFilter(t) ==
  [NoFilters EXCEPT
     !.fields = <<[key |-> "tenantId", kind |-> "value", val |-> t,
                   ops |-> <<>>]>>]

CountParams ==
  {[NoParams EXCEPT !.page = pg[1], !.perPage = pg[2], !.search = s,
                    !.filters = f, !.orderBy = o, !.includeDeleted = d] :
     pg \in {<<Undefined, Undefined>>, <<2, 1>>, <<-1, 1>>, <<Undefined, -1>>},
     s \in {<<>>, <<"b">>, <<" ">>},
     f \in {NoFilters, TenantFilter("B")},
     o \in {<<>>, <<[field |-> "id", direction |-> "desc"]>>},
     d \in BOOLEAN}

CountContexts == {NoContext, [NoContext EXCEPT !.scope = "A", !.actor = "user"]}

NextCount ==
  \/ Return
  \/ \E data \in CountData :
       Idle /\ seq["default"] < MaxId /\ create(data, NoContext)
  \/ \E id \in Ids : Idle /\ deleteOne(id, NoContext)
  \/ \E params \in CountParams, context \in CountContexts :
       Idle /\ list(params, context)

SpecCount == InitWith(CountConfigs) /\ [][NextCount]_vars

-----------------------------------------------------------------------------
(* Claims about list's count and page window, checked under SpecCount *)

\* Every plain-field filter of the call holds of the row
FilteredBy(row) ==
  \A k \in 1..Len(call.params.filters.fields) :
    row[call.params.filters.fields[k].key] = call.params.filters.fields[k].val

\* The search term, unless blank, occurs in the row's searchable column
Searched(row) ==
  Trim(call.params.search) # <<>> =>
    \E i \in 1..Len(row.val) : \E j \in i..Len(row.val) :
      SubSeq(row.val, i, j) = call.params.search

\* The stored rows the composed predicate of the call selects
CountExpected ==
  {id \in DOMAIN before[Db] :
     LET row == RowOf(before[Db], id)
     IN InScope(row) /\ Visible(row) /\ FilteredBy(row) /\ Searched(row)}

\* The page window of the call over totalItems rows
Window ==
  Min(res.perPage, Max(0, res.totalItems - (res.page - 1) * res.perPage))

\* C27 as stated: totalItems is the number of stored rows matching the
\* filters, the search, the scope and the soft-delete visibility, whatever
\* page, perPage and orderBy are, and the number of returned rows is
\* min(perPage, max(0, totalItems - offset)).
C27_CountAndWindow ==
  (call.op = "list" /\ res.ok) =>
    /\ res.totalItems = Cardinality(CountExpected)
    /\ Len(res.rows) = Window

\* C27, amended: totalItems is the number of stored rows matching the
\* filters, the search, the scope and the soft-delete visibility, whatever
\* page, perPage and orderBy are; when page and perPage as list computes
\* them are at least 1, the number of returned rows is
\* min(perPage, max(0, totalItems - offset)).
C27_CountAndWindowInRange ==
  (call.op = "list" /\ res.ok) =>
    /\ res.totalItems = Cardinality(CountExpected)
    /\ (res.page >= 1 /\ res.perPage >= 1) => Len(res.rows) = Window

C27_Witness ==
  /\ call.op = "list" /\ res.ok
  /\ call.params.search = <<"b">> /\ Len(call.params.orderBy) = 1
  /\ res.page = 2 /\ res.perPage = 1
  /\ res.totalItems = 2 /\ Len(res.rows) = 1 /\ res.rows[1].id = 1


-----------------------------------------------------------------------------
(* list with filter expressions whose AND / OR entries hold AND / OR keys   *)
(* themselves, with and without an allow-list                              *)

\* key: [expression, ...] with key AND or OR, inside an entry of a list
NestedField(key, groups) ==
  [key |-> key, kind |-> "value", val |-> groups, ops |-> <<>>]

NestedConfigs ==
  {[BaseConfig EXCEPT !.allowedFilters = al] : al \in {<<>>, <<"val", "id">>}}

\* {OR: [{AND: [{val: 'a'}, {id: {gte: 2}}]}, {id: {lte: 1}}]},
\* {AND: [{OR: [{val: 'a'}, {id: {gte: 2}}]}]},
\* {AND: [{val: 'a', OR: [{id: {lte: 1}}, {id: {gte: 2}}]}]},
\* and two expressions without nesting
NestedFilters ==
  <<[NoFilters EXCEPT
      !.hasOR = TRUE,
      !.OR = << <<NestedField("AND", << <<FilterEntries[1]>>,
                                        <<FilterEntries[7]>> >>)>>,
                <<FilterEntries[9]>> >>],
   [NoFilters EXCEPT
      !.hasAND = TRUE,
      !.AND = << <<NestedField("OR", << <<FilterEntries[1]>>,
                                        <<FilterEntries[7]>> >>)>> >>],
   [NoFilters EXCEPT
      !.hasAND = TRUE,
      !.AND = << <<FilterEntries[1],
                   NestedField("OR", << <<FilterEntries[9]>>,
                                        <<FilterEntries[7]>> >>)>> >>],
   [NoFilters EXCEPT
      !.hasOR = TRUE,
      !.OR = << <<FilterEntries[1], FilterEntries[7]>>,
                <<FilterEntries[9]>> >>],
   [NoFilters EXCEPT
      !.hasAND = TRUE,
      !.AND = << <<FilterEntries[1]>>, <<FilterEntries[7]>> >>]>>

NextNested ==
  \/ Return
  \/ \E data \in FilterData :
       Idle /\ seq["default"] < MaxId /\ create(data, NoContext)
  \/ \E f \in 1..Len(NestedFilters) :
       Idle /\ list([NoParams EXCEPT !.filters = NestedFilters[f]], NoContext)

SpecNested == InitWith(NestedConfigs) /\ [][NextNested]_vars

-----------------------------------------------------------------------------
(* Claims about nested filter groups, checked under SpecNested *)

IsNested(e) == e.key \in {"AND", "OR"}

\* The row satisfies the expression g, a sequence of fields, as written: a
\* field AND holds when every expression of its list does, a field OR when
\* one of them does, any other field as a field of a filter object
RECURSIVE GroupMeans(_, _)
GroupMeans(g, row) ==
  \A k \in 1..Len(g) :
    IF g[k].key = "AND"
    THEN \A j \in 1..Len(g[k].val) : GroupMeans(g[k].val[j], row)
    ELSE IF g[k].key = "OR"
    THEN \E j \in 1..Len(g[k].val) : GroupMeans(g[k].val[j], row)
    ELSE EntrySat(g[k], row)

\* Some entry of the AND or OR list of the call holds an AND or OR key
NestedCall ==
  /\ call.op = "list"
  /\ \/ \E i \in 1..Len(Filters.AND) :
          \E k \in 1..Len(Filters.AND[i]) : IsNested(Filters.AND[i][k])
     \/ \E i \in 1..Len(Filters.OR) :
          \E k \in 1..Len(Filters.OR[i]) : IsNested(Filters.OR[i][k])

\* The stored rows the filter expression of the call selects as written
MeantIds ==
  {id \in DOMAIN before[Db] :
     LET row == RowOf(before[Db], id)
     IN /\ \A i \in 1..Len(Filters.AND) : GroupMeans(Filters.AND[i], row)
        /\ Filters.hasOR =>
             \E i \in 1..Len(Filters.OR) : GroupMeans(Filters.OR[i], row)
        /\ GroupMeans(Filters.fields, row)}

\* C28: an entry of an AND or OR list that itself holds AND / OR keys is
\* compiled with the AND / OR semantics of a top-level expression: list
\* with such a filter succeeds and selects exactly the rows that satisfy
\* the nested expression as written.
C28_NestedGroups ==
  NestedCall => res.ok /\ ResultIs(MeantIds)

\* Without nesting the same reading is what list returns
C28_FlatGroups ==
  (call.op = "list" /\ ~NestedCall) => res.ok /\ ResultIs(MeantIds)


-----------------------------------------------------------------------------
(* Claims about the counts of the bulk operations, checked under Spec *)

\* The stored rows the write of the bulk call applies to: the rows named by
\* the call that satisfy the caller's restriction
AppliedIds ==
  {id \in IdSet(call.ids) \cap DOMAIN before[Db] : InScope(before[Db][id])}

\* C29: the count bulkDelete and bulkRestore return is the number of stored
\* rows the call marked deleted, removed or restored: ids that match no row
\* and rows excluded by the caller's scope contribute nothing to it, and no
\* other row is written.
C29_BulkCount ==
  (call.op \in {"bulkDelete", "bulkRestore"} /\ res.ok) =>
    /\ res.count = Cardinality(AppliedIds)
    /\ \A id \in DOMAIN before[Db] \ AppliedIds : Untouched(id)


-----------------------------------------------------------------------------
(* Claims about what a restricted caller is handed back, checked under Spec *)

\* The returned row satisfies the caller's restriction, or did so when the
\* call began (the caller's own update moved it)
Confined(row) ==
  \/ row.tenantId = call.ctx.scope
  \/ Existed(row.id) /\ before[Db][row.id].tenantId = call.ctx.scope

\* C30: findOne, list and update, on its normal and on its empty-payload
\* path, called with a context whose scope function returns a restriction,
\* return no row that fails the restriction.
C30_ScopeReadConfinement ==
  (Restricted /\ call.op \in {"findOne", "list", "update"}) =>
    \A k \in 1..Len(res.rows) : Confined(res.rows[k])

====
